---- MODULE Spec2Model ----
(***************************************************************************)
(* Psyringe: a lazy, concurrent dependency injector (psyringe.go).         *)
(*                                                                         *)
(* The model follows the goroutines and channels of Psyringe.Inject,       *)
(* Psyringe.inject, Psyringe.getValue and ctor.getValue.  Every channel in *)
(* the source is unbuffered, so a send and the matching receive are one    *)
(* step (a rendezvous); a receive on a closed channel yields nil.          *)
(***************************************************************************)
EXTENDS Integers, Sequences, FiniteSets, TLC

\* Number of Inject calls made on the container.
MaxCalls == 2
\* Number of field tasks (inject, line 312) that may be resolving at once:
\* a further Inject call starts only while its fields fit under this cap.
MaxActive == 2
\* Number of Add calls made after New.
MaxAdds == 2
\* Number of Clone calls made.
MaxClones == 1
\* Number of Clone calls made where the registries of the clones are compared.
MaxCopies == 2
\* Number of Test calls made.
MaxTests == 2
\* Number of parameters of a constructor where Test is examined.
MaxParams == 2

\* The injection types (reflect.Type) in play, in their sorted order.
Keys == {"A", "B", "C"}

\* Parameter lists a constructor of each injection type may declare:
\* func(B, C) A, func(C) B, func() C.
InTypesOf(k) ==
    CASE k = "A" -> <<"B", "C">>
      [] k = "B" -> <<"C">>
      [] OTHER   -> <<>>

\* What New(...) may have been given for each injection type: a constructor,
\* a realised value, or nothing.
EntriesOf(k) ==
    CASE k = "A" -> {"ctor"}
      [] k = "B" -> {"ctor", "none"}
      [] OTHER   -> {"ctor", "value", "none"}

----------------------------------------------------------------------------
\* reflect.Value

\* The zero reflect.Value{} (IsValid() == false).
NoValue == [valid |-> FALSE, type |-> "", id |-> 0]

\* A valid value of injection type t; id tells instances apart.
Val(t, id) == [valid |-> TRUE, type |-> t, id |-> id]

\* What a struct field of type t holds before Inject touches it.
Prior(t) == Val(t, -1)

----------------------------------------------------------------------------
\* error values

NoErr == [kind |-> "nil", type |-> "", idx |-> 0, ctor |-> ""]

\* NoConstructorOrValue{ForType: t}
NoConstructorOrValue(t) ==
    [kind |-> "NoConstructorOrValue", type |-> t, idx |-> 0, ctor |-> ""]

\* fmt.Errorf("unable to create arg %d (%s) of %s constructor", i, in, out)
\* (i is zero-based, as in the source)
ArgErr(i, in, out) == [kind |-> "arg", type |-> in, idx |-> i, ctor |-> out]

\* The error a constructor's own function returned.
UserErr(k) == [kind |-> "user", type |-> k, idx |-> 0, ctor |-> k]

\* The structural errors of inject.
TargetErr(kind) == [kind |-> kind, type |-> "", idx |-> 0, ctor |-> ""]

IsNoConstructorOrValue(err) == err.kind = "NoConstructorOrValue"

----------------------------------------------------------------------------
\* State

VARIABLES
    values,     \* Psyringe.values: injection type -> realised value
    ctors,      \* Psyringe.ctors: injection type -> *ctor (with its goroutines)
    call,       \* the Inject calls made so far, their targets and field tasks
    panicked,   \* the process died of a runtime panic
    injectionTypes, \* Psyringe.injectionTypes: the registered injection types
    self,       \* which Psyringe the four variables above describe
    others,     \* the other Psyringes of the program, goroutines included
    adds,       \* the Add calls made so far, with what each returned
    tested,     \* the Test calls made so far, with what each returned
    serial      \* per injection type, how often user functions returned it

\* The parent of a Psyringe that is no scope of another.
NoParent == -1

\* The Psyringe New returned: it is no clone and carries over nothing.
\* from is the Psyringe a clone was taken of, carried the constructor
\* values that were realised in it at that moment, parent the Psyringe a
\* scope falls back to.
\* Hooks{NoValueForStructField: fn}: fn tells hook functions apart, fails is
\* whether fn returns a non-nil error.
Hooks(fn, fails) == [fn |-> fn, fails |-> fails]

\* newHooks(): the hook of a new Psyringe returns nil.
newHooks == Hooks(0, FALSE)

\* The error hook function fn returns.
HookErr(fn) == [kind |-> "hook", type |-> "", idx |-> fn, ctor |-> ""]

\* What the task of a field without entry does once the hook h was called
\* with the NoConstructorOrValue err: nil leaves the field as it is, an
\* error is sent on errs.
noValueForStructField(h, err) ==
    IF h.fails THEN [pc |-> "send", err |-> HookErr(h.fn)]
               ELSE [pc |-> "done", err |-> err]

Original ==
    [id |-> 0, from |-> 0, carried |-> <<>>, parent |-> NoParent,
     hook |-> newHooks]

\* What the goroutines of Inject leave alone.
reg == <<injectionTypes, self, others, adds, tested>>

vars == <<values, ctors, call, panicked, injectionTypes, self, others, adds,
          tested, serial>>

\* A goroutine spawned by ctor.getValue to fetch argument i of a constructor.
NewArgTask == [pc |-> "get", err |-> NoErr]

\* tryMakeCtor: the ctor for a function returning k with parameters in.
\* pc is the position of the goroutine running the once.Do body ("idle"
\* until the sync.Once has fired); value is the pointer c.value, <<>> for nil.
\* count, passed and failed observe the user function: how often it was
\* called, with which arguments, and whether it returned a non-nil error.
tryMakeCtor(k, in) ==
    [outType |-> k,
     inTypes |-> in,
     value   |-> <<>>,
     pc      |-> "idle",
     args    |-> [i \in 1..Len(in) |-> NoValue],
     in      |-> [i \in 1..Len(in) |-> NewArgTask],
     err     |-> NoErr,
     out     |-> NoValue,
     count   |-> 0,
     passed  |-> <<>>,
     failed  |-> FALSE]

Registries ==
    {r \in [Keys -> {"ctor", "value", "none"}] :
        \A k \in Keys : r[k] \in EntriesOf(k)}

\* A target as passed to Inject, with the prior content of its fields. kind
\* is "ptrStruct" (non-nil pointer to a struct), "notPtr", "ptrNotStruct"
\* or "nilPtr"; types lists the field types of the struct type involved.
NewTarget(kind, types) ==
    [kind   |-> kind,
     types  |-> types,
     pc     |-> "start",
     err    |-> NoErr,
     f      |-> [i \in 1..Len(types) |->
                    [pc |-> "idle", err |-> NoErr, val |-> Prior(types[i]),
                     hooked |-> <<>>]]]

\* The argument lists of the Inject calls: &struct{C; A},
\* (&struct{A}, nil pointer to struct{A}), (struct{A} value, *int).
TargetLists ==
    {<<NewTarget("ptrStruct", <<"C", "A">>)>>,
     <<NewTarget("ptrStruct", <<"A">>), NewTarget("nilPtr", <<"A">>)>>,
     <<NewTarget("notPtr", <<"A">>), NewTarget("ptrNotStruct", <<>>)>>}

\* The container after New(...) succeeded: at most one entry per key.
Init ==
    /\ \E r \in Registries :
        /\ values = [k \in {x \in Keys : r[x] = "value"} |-> Val(k, 0)]
        /\ ctors = [k \in {x \in Keys : r[x] = "ctor"} |->
                        tryMakeCtor(k, InTypesOf(k))]
    /\ call = <<>>
    /\ panicked = FALSE
    /\ injectionTypes = DOMAIN values \cup DOMAIN ctors
    /\ self = Original
    /\ others = <<>>
    /\ adds = <<>>
    /\ tested = <<>>
    /\ serial = [k \in Keys |-> 0]

----------------------------------------------------------------------------
\* Psyringe.getValue and ctor.getValue

\* Psyringe.getValue, up to the point where ctor.getValue blocks on
\* c.errChan: "value" returns (v, nil) at once, "err" returns
\* (reflect.Value{}, err), "wait" goes on to `go c.once.Do` and `<-c.errChan`.
\* The read of c.value at line 402 is not synchronised with the write at
\* line 427; both outcomes of that read coincide here: a stale nil leads to
\* the receive at line 429, which on the closed channel yields nil and
\* returns *c.value, the result of the fast path.
getValue(t) ==
    IF t \in DOMAIN values
        THEN [res |-> "value", v |-> values[t], err |-> NoErr]
    ELSE IF t \notin DOMAIN ctors
        THEN [res |-> "err", v |-> NoValue, err |-> NoConstructorOrValue(t)]
    ELSE IF ctors[t].value # <<>>
        THEN [res |-> "value", v |-> ctors[t].value[1], err |-> NoErr]
    ELSE [res |-> "wait", v |-> NoValue, err |-> NoErr]

\* onceDo starting the body of every constructor that has not started.
onceDo_All(cs, t) ==
    [k \in DOMAIN cs |-> IF cs[k].pc = "idle" THEN [cs[k] EXCEPT !.pc = "wait"]
                                              ELSE cs[k]]

\* go c.once.Do(...): the body starts only for the first caller; it spawns
\* one goroutine per parameter and waits for them.
onceDo(cs, t) ==
    IF cs[t].pc = "idle" THEN [cs EXCEPT ![t].pc = "wait"] ELSE cs

\* The goroutines blocked in a send on the errChan of ctor t: an argument
\* task (line 417) or the once body itself (line 425).
Senders(t) ==
    {<<"arg", i>> : i \in {j \in 1..Len(ctors[t].in) : ctors[t].in[j].pc = "send"}}
        \cup (IF ctors[t].pc = "send" THEN {<<"ctor", 0>>} ELSE {})

SentErr(t, s) ==
    IF s[1] = "arg" THEN ctors[t].in[s[2]].err ELSE ctors[t].err

\* The ctors once the send of s was received: an argument task stores the
\* invalid value it got and is done (lines 419, 414); the once body stores
\* c.value and closes c.errChan (lines 427, 406).
Sent(t, s) ==
    IF s[1] = "arg"
        THEN [ctors EXCEPT ![t].in[s[2]].pc = "done", ![t].args[s[2]] = NoValue]
        ELSE [ctors EXCEPT ![t].pc = "done", ![t].value = <<ctors[t].out>>]

\* c.errChan is closed when the once body has returned.
Closed(t) == ctors[t].pc = "done"

\* What `<-c.errChan` can yield now: the error of a blocked sender, or nil
\* from the closed channel.
Receives(t) ==
    {[err |-> SentErr(t, s), cs |-> Sent(t, s)] : s \in Senders(t)}
        \cup (IF Closed(t) THEN {[err |-> NoErr, cs |-> ctors]} ELSE {})

\* received handing out a new zero value of the type instead of *c.value.
received_Fresh(t, r) ==
    IF r.err # NoErr
        THEN [v |-> NoValue, err |-> r.err]
        ELSE [v |-> Val(t, 0), err |-> NoErr]

\* ctor.getValue lines 429-432: the caller's result for what it received.
received(t, r) ==
    IF r.err # NoErr
        THEN [v |-> NoValue, err |-> r.err]
        ELSE [v |-> r.cs[t].value[1], err |-> NoErr]

\* The construct closure up to v.Call (lines 379-385): the error for the
\* first invalid argument, nil if the function is to be called.
construct(c, in) ==
    IF \E i \in 1..Len(in) : ~in[i].valid
        THEN LET i == CHOOSE x \in 1..Len(in) :
                        ~in[x].valid /\ \A y \in 1..(x - 1) : in[y].valid
             IN ArgErr(i - 1, c.inTypes[i], c.outType)
        ELSE NoErr

----------------------------------------------------------------------------
\* The goroutines of a constructor (ctor.getValue, lines 405-428)

\* ArgGot with the value stored at the mirrored index of args.
ArgGot_Misplaced(cs, k, i, v, err) ==
    IF err = NoErr
        THEN [cs EXCEPT ![k].in[i].pc = "done",
                        ![k].args[Len(cs[k].args) + 1 - i] = v]
        ELSE [cs EXCEPT ![k].in[i].pc = "send", ![k].in[i].err = err]

\* Lines 415-419 once s.getValue(t) has returned (v, err) to argument task
\* i of ctor k: a non-nil error is sent on c.errChan first.
ArgGot(cs, k, i, v, err) ==
    IF err = NoErr
        THEN [cs EXCEPT ![k].in[i].pc = "done", ![k].args[i] = v]
        ELSE [cs EXCEPT ![k].in[i].pc = "send", ![k].in[i].err = err]

\* Argument task i of ctor k calls s.getValue(t) (line 415).
ArgGet(k, i) ==
    /\ ~panicked
    /\ ctors[k].pc = "wait"
    /\ ctors[k].in[i].pc = "get"
    /\ LET t == ctors[k].inTypes[i]
           g == getValue(t)
       IN  ctors' = IF g.res = "wait"
                        THEN [onceDo(ctors, t) EXCEPT ![k].in[i].pc = "recv"]
                        ELSE ArgGot(ctors, k, i, g.v, g.err)
    /\ UNCHANGED <<values, call, panicked, reg, serial>>

\* Argument task i of ctor k receives from the errChan of its input's ctor.
ArgRecv(k, i) ==
    /\ ~panicked
    /\ ctors[k].in[i].pc = "recv"
    /\ LET t == ctors[k].inTypes[i]
       IN  \E r \in Receives(t) :
              ctors' = ArgGot(r.cs, k, i, received(t, r).v, received(t, r).err)
    /\ UNCHANGED <<values, call, panicked, reg, serial>>

\* Construct entered only while no other user function is executing, as
\* if s.ctorMutex were held across the call.
Construct_Locked(k) ==
    /\ ~panicked
    /\ ctors[k].pc = "wait"
    /\ \A i \in 1..Len(ctors[k].in) : ctors[k].in[i].pc = "done"
    /\ \A k2 \in DOMAIN ctors : ctors[k2].pc # "call"
    /\ LET c == ctors[k]
           e == construct(c, c.args)
       IN  ctors' = IF e # NoErr
                        THEN [ctors EXCEPT ![k].pc = "send", ![k].err = e,
                                           ![k].out = NoValue]
                        ELSE [ctors EXCEPT ![k].pc = "call",
                                           ![k].count = c.count + 1,
                                           ![k].passed = c.args]
    /\ UNCHANGED <<values, call, panicked, reg, serial>>

\* Construct without wg.Wait(): construct starts while argument tasks are
\* still at work.
Construct_NoWait(k) ==
    /\ ~panicked
    /\ ctors[k].pc = "wait"
    /\ LET c == ctors[k]
           e == construct(c, c.args)
       IN  ctors' = IF e # NoErr
                        THEN [ctors EXCEPT ![k].pc = "send", ![k].err = e,
                                           ![k].out = NoValue]
                        ELSE [ctors EXCEPT ![k].pc = "call",
                                           ![k].count = c.count + 1,
                                           ![k].passed = c.args]
    /\ UNCHANGED <<values, call, panicked, reg, serial>>

\* wg.Wait() returns and c.construct(args) starts (lines 422-423): either
\* it refuses an invalid argument, or the user function is entered.
Construct(k) ==
    /\ ~panicked
    /\ ctors[k].pc = "wait"
    /\ \A i \in 1..Len(ctors[k].in) : ctors[k].in[i].pc = "done"
    /\ LET c == ctors[k]
           e == construct(c, c.args)
       IN  ctors' = IF e # NoErr
                        THEN [ctors EXCEPT ![k].pc = "send", ![k].err = e,
                                           ![k].out = NoValue]
                        ELSE [ctors EXCEPT ![k].pc = "call",
                                           ![k].count = c.count + 1,
                                           ![k].passed = c.args]
    /\ UNCHANGED <<values, call, panicked, reg, serial>>

\* The user function returns (lines 386-391, 424-427): with a nil error the
\* value is stored and errChan closed; with an error the once body blocks
\* sending it, holding the first return value. Every call of a user
\* function returns a new value (as the counting constructors of
\* counter_test.go, lines 49-59).
Return(k) ==
    /\ ~panicked
    /\ ctors[k].pc = "call"
    /\ \E fail \in BOOLEAN :
          LET v == Val(k, serial[k] + 1)
          IN  ctors' = IF fail
                          THEN [ctors EXCEPT ![k].pc = "send",
                                             ![k].err = UserErr(k),
                                             ![k].out = v,
                                             ![k].failed = TRUE]
                          ELSE [ctors EXCEPT ![k].pc = "done",
                                             ![k].out = v,
                                             ![k].value = <<v>>]
    /\ serial' = [serial EXCEPT ![k] = @ + 1]
    /\ UNCHANGED <<values, call, panicked, reg>>

----------------------------------------------------------------------------
\* The goroutines of Inject and inject

\* validate without the v.IsNil() check.
validate_NoNilCheck(kind) ==
    IF kind \in {"ptrStruct", "nilPtr"} THEN NoErr ELSE TargetErr(kind)

\* inject lines 291-302: the structural error for a target, nil if it is a
\* non-nil pointer to a struct.
validate(kind) ==
    IF kind = "ptrStruct" THEN NoErr ELSE TargetErr(kind)

\* FieldGot without the NoConstructorOrValue case: every error is sent.
FieldGot_NoSkip(cl, c, t, i, v, err, cs) ==
    /\ ctors' = cs
    /\ IF err = NoErr
          THEN IF v.valid
                  THEN /\ call' = [cl EXCEPT ![c].tg[t].f[i].pc = "done",
                                             ![c].tg[t].f[i].val = v]
                       /\ UNCHANGED panicked
                  ELSE /\ panicked' = TRUE
                       /\ call' = cl
          ELSE /\ call' = [cl EXCEPT ![c].tg[t].f[i].pc = "send",
                                     ![c].tg[t].f[i].err = err]
               /\ UNCHANGED panicked

\* Lines 314-321 once s.getValue returned (v, err) to the task of field i:
\* set the field (reflect panics on the zero Value), pass over a
\* NoConstructorOrValue, send any other error on errs.
FieldGot(cl, c, t, i, v, err, cs) ==
    /\ ctors' = cs
    /\ IF err = NoErr
          THEN IF v.valid
                  THEN /\ call' = [cl EXCEPT ![c].tg[t].f[i].pc = "done",
                                             ![c].tg[t].f[i].val = v]
                       /\ UNCHANGED panicked
                  ELSE /\ panicked' = TRUE
                       /\ call' = cl
          ELSE /\ call' =
                    IF IsNoConstructorOrValue(err)
                       THEN LET h == noValueForStructField(self.hook, err)
                            IN  [cl EXCEPT
                                   ![c].tg[t].f[i].pc = h.pc,
                                   ![c].tg[t].f[i].err = h.err,
                                   ![c].tg[t].f[i].hooked =
                                       Append(@, self.hook.fn)]
                       ELSE [cl EXCEPT ![c].tg[t].f[i].pc = "send",
                                       ![c].tg[t].f[i].err = err]
               /\ UNCHANGED panicked

\* The field tasks still resolving (started or about to be started).
ActiveIn(tg) ==
    IF tg.kind # "ptrStruct" THEN 0
    ELSE Cardinality({i \in 1..Len(tg.f) : tg.f[i].pc \in {"idle", "get", "recv"}})

RECURSIVE SumActive(_)
SumActive(tl) ==
    IF tl = <<>> THEN 0 ELSE ActiveIn(Head(tl)) + SumActive(Tail(tl))

NewFields(tl) == SumActive(tl)

RECURSIVE ActiveCalls(_)
ActiveCalls(cl) ==
    IF cl = <<>> THEN 0 ELSE SumActive(Head(cl).tg) + ActiveCalls(Tail(cl))

Active == ActiveCalls(call)

\* The same over the Psyringes in others, and the Inject calls made on them.
RECURSIVE ActiveOthers(_)
ActiveOthers(os) ==
    IF os = <<>> THEN 0 ELSE ActiveCalls(Head(os).call) + ActiveOthers(Tail(os))

RECURSIVE CallsOthers(_)
CallsOthers(os) ==
    IF os = <<>> THEN 0 ELSE Len(Head(os).call) + CallsOthers(Tail(os))

\* inject lines 291-323 for one target: a structural error is returned at
\* once (and sent on by Inject's goroutine, line 243); otherwise one
\* goroutine per field is started and inject waits on errs.
injectStart(tg) ==
    IF validate(tg.kind) # NoErr
        THEN [tg EXCEPT !.pc = "send", !.err = validate(tg.kind)]
        ELSE [tg EXCEPT !.pc = "recv",
                        !.f = [i \in 1..Len(tg.f) |-> [tg.f[i] EXCEPT !.pc = "get"]]]

\* Inject (lines 227-249): one goroutine per target, each calling inject,
\* then `<-errs`.
StartInject(tl) ==
    /\ ~panicked
    /\ Len(call) + CallsOthers(others) < MaxCalls
    /\ Active + ActiveOthers(others) + NewFields(tl) <= MaxActive
    /\ call' = Append(call, [pc |-> "recv", result |-> NoErr,
                             tg |-> [t \in 1..Len(tl) |-> injectStart(tl[t])]])
    /\ UNCHANGED <<values, ctors, panicked, reg, serial>>

\* A field task calls s.getValue(f.Type()) (line 314).
FieldGet(c, t, i) ==
    /\ ~panicked
    /\ call[c].tg[t].f[i].pc = "get"
    /\ LET ty == call[c].tg[t].types[i]
           g  == getValue(ty)
       IN  IF g.res = "wait"
              THEN /\ ctors' = onceDo(ctors, ty)
                   /\ call' = [call EXCEPT ![c].tg[t].f[i].pc = "recv"]
                   /\ UNCHANGED panicked
              ELSE FieldGot(call, c, t, i, g.v, g.err, ctors)
    /\ UNCHANGED <<values, reg, serial>>

\* A field task receives from the errChan of its type's ctor (line 429).
FieldRecv(c, t, i) ==
    /\ ~panicked
    /\ call[c].tg[t].f[i].pc = "recv"
    /\ LET ty == call[c].tg[t].types[i]
       IN  \E r \in Receives(ty) :
              FieldGot(call, c, t, i, received(ty, r).v, received(ty, r).err, r.cs)
    /\ UNCHANGED <<values, reg, serial>>

\* injectClosed with wg.Done called after f.Set only, not deferred: a task
\* that passes its field over never calls it.
injectClosed_DoneAfterSet(tg) ==
    \A i \in 1..Len(tg.f) : tg.f[i].pc = "done" /\ tg.f[i].err = NoErr

\* The closer goroutine of inject (lines 307-310): errs is closed once
\* every field task has called wg.Done.
injectClosed(tg) ==
    \A i \in 1..Len(tg.f) : tg.f[i].pc = "done"

\* TargetGot dropping the error it received.
TargetGot_Drop(tg, err) ==
    [tg EXCEPT !.pc = "done"]

\* What inject's `return <-errs` (line 324) hands to the target goroutine
\* of Inject, which sends a non-nil error on (line 243).
TargetGot(tg, err) ==
    [tg EXCEPT !.pc = IF err = NoErr THEN "done" ELSE "send", !.err = err]

\* `return <-errs` of inject (line 324): the error of one blocked field
\* task, or nil once errs is closed.
TargetRecv(c, t) ==
    /\ ~panicked
    /\ call[c].tg[t].pc = "recv"
    /\ LET tg == call[c].tg[t]
       IN  \/ \E i \in 1..Len(tg.f) :
                /\ tg.f[i].pc = "send"
                /\ call' = [call EXCEPT ![c].tg[t] =
                               TargetGot([tg EXCEPT !.f[i].pc = "done"],
                                         tg.f[i].err)]
           \/ /\ injectClosed(tg)
              /\ call' = [call EXCEPT ![c].tg[t] = TargetGot(tg, NoErr)]
    /\ UNCHANGED <<values, ctors, panicked, reg, serial>>

\* The closer goroutine of Inject (lines 234-237): errs is closed once
\* every target goroutine has called wg.Done.
InjectClosed(cl) ==
    \A t \in 1..Len(cl.tg) : cl.tg[t].pc = "done"

\* `return <-errs` of Inject (line 248).
InjectRecv(c) ==
    /\ ~panicked
    /\ call[c].pc = "recv"
    /\ \/ \E t \in 1..Len(call[c].tg) :
            /\ call[c].tg[t].pc = "send"
            /\ call' = [call EXCEPT ![c].pc = "returned",
                                    ![c].result = call[c].tg[t].err,
                                    ![c].tg[t].pc = "done"]
       \/ /\ InjectClosed(call[c])
          /\ call' = [call EXCEPT ![c].pc = "returned", ![c].result = NoErr]
    /\ UNCHANGED <<values, ctors, panicked, reg, serial>>

----------------------------------------------------------------------------

CallIds == 1..Len(call)
TargetIds(c) == 1..Len(call[c].tg)
FieldIds(c, t) == 1..Len(call[c].tg[t].f)
ArgIds(k) == 1..Len(ctors[k].in)

Next ==
    \/ \E tl \in TargetLists : StartInject(tl)
    \/ \E c \in CallIds : InjectRecv(c)
    \/ \E c \in CallIds : \E t \in TargetIds(c) : TargetRecv(c, t)
    \/ \E c \in CallIds : \E t \in TargetIds(c) :
          \E i \in FieldIds(c, t) : FieldGet(c, t, i)
    \/ \E c \in CallIds : \E t \in TargetIds(c) :
          \E i \in FieldIds(c, t) : FieldRecv(c, t, i)
    \/ \E k \in DOMAIN ctors : \E i \in ArgIds(k) : ArgGet(k, i)
    \/ \E k \in DOMAIN ctors : \E i \in ArgIds(k) : ArgRecv(k, i)
    \/ \E k \in DOMAIN ctors : Construct(k)
    \/ \E k \in DOMAIN ctors : Return(k)

Spec == Init /\ [][Next]_vars

----------------------------------------------------------------------------
\* Add (psyringe.go lines 161-172, 327-345, 435-451)

\* The things handed to Add: a value of type k, a function returning k
\* with parameters in (which tryMakeCtor accepts as a constructor), or nil.
Value(k, id) == [kind |-> "value", type |-> k, in |-> <<>>, v |-> Val(k, id)]
Func(k, in) == [kind |-> "ctor", type |-> k, in |-> in, v |-> NoValue]
Nil == [kind |-> "nil", type |-> "", in |-> <<>>, v |-> NoValue]

\* fmt.Errorf("injection type %s already registered", t)
AlreadyRegistered(t) ==
    [kind |-> "alreadyRegistered", type |-> t, idx |-> 0, ctor |-> ""]

\* fmt.Errorf("cannot add nil (argument %d)", i)
CannotAddNil(i) == [kind |-> "cannotAddNil", type |-> "", idx |-> i, ctor |-> ""]

\* m[k] = v on a Go map.
Put(m, k, v) == [x \in DOMAIN m \cup {k} |-> IF x = k THEN v ELSE m[x]]

\* The maps of the Psyringe the state variables describe.
This == [values |-> values, ctors |-> ctors, injectionTypes |-> injectionTypes]

\* registerInjectionType accepting a type that is registered already.
registerInjectionType_Twice(s, t) ==
    [s |-> [s EXCEPT !.injectionTypes = @ \cup {t}], err |-> NoErr]

\* registerInjectionType (lines 445-451) on the maps s: the maps after it
\* and the error it returns.
registerInjectionType(s, t) ==
    IF t \in s.injectionTypes
        THEN [s |-> s, err |-> AlreadyRegistered(t)]
        ELSE [s |-> [s EXCEPT !.injectionTypes = @ \cup {t}], err |-> NoErr]

\* addCtor (lines 435-438): the ctor is stored, then its type registered.
addCtor(s, c) ==
    registerInjectionType([s EXCEPT !.ctors = Put(@, c.outType, c)], c.outType)

\* addValue (lines 440-443): the value is stored, then its type registered.
addValue(s, t, v) ==
    registerInjectionType([s EXCEPT !.values = Put(@, t, v)], t)

\* add (lines 327-345): a constructor if tryMakeCtor makes one of the
\* thing, a value otherwise.
add(s, thing) ==
    IF thing.kind = "ctor"
        THEN addCtor(s, tryMakeCtor(thing.type, thing.in))
        ELSE addValue(s, thing.type, thing.v)

\* AddFrom passing over a nil thing instead of returning an error.
RECURSIVE AddFrom_SkipNil(_, _, _)
AddFrom_SkipNil(s, things, i) ==
    IF i = Len(things) THEN [s |-> s, err |-> NoErr]
    ELSE IF things[i + 1].kind = "nil" THEN AddFrom_SkipNil(s, things, i + 1)
    ELSE LET r == add(s, things[i + 1])
         IN  IF r.err # NoErr THEN r ELSE AddFrom_SkipNil(r.s, things, i + 1)

\* The loop of Add (lines 163-170) from the zero-based position i on.
RECURSIVE AddFrom(_, _, _)
AddFrom(s, things, i) ==
    IF i = Len(things) THEN [s |-> s, err |-> NoErr]
    ELSE IF things[i + 1].kind = "nil" THEN [s |-> s, err |-> CannotAddNil(i)]
    ELSE LET r == add(s, things[i + 1])
         IN  IF r.err # NoErr THEN r ELSE AddFrom(r.s, things, i + 1)

\* No goroutine of this Psyringe is running: every Inject call has
\* returned and what is left of its goroutines is blocked in a send for
\* good. Add writes the maps that getValue reads without a lock, so the
\* caller has to keep Add apart from a running Inject.
AtRest ==
    /\ \A c \in CallIds : call[c].pc = "returned"
    /\ \A c \in CallIds : \A t \in TargetIds(c) : \A i \in FieldIds(c, t) :
          call[c].tg[t].f[i].pc \notin {"get", "recv"}
    /\ \A k \in DOMAIN ctors : ctors[k].pc \in {"idle", "send", "done"}

\* Add with one injectionTypes map for a Psyringe and all the others made
\* from it: what is registered in one is registered in every one.
Add_Shared(things) ==
    /\ ~panicked
    /\ Len(adds) < MaxAdds
    /\ AtRest
    /\ LET r == AddFrom(This, things, 0)
       IN  /\ values' = r.s.values
           /\ ctors' = r.s.ctors
           /\ injectionTypes' = r.s.injectionTypes
           /\ others' = [i \in 1..Len(others) |->
                  [others[i] EXCEPT !.injectionTypes = r.s.injectionTypes]]
           /\ adds' = Append(adds, [p |-> self.id, things |-> things,
                                    err |-> r.err])
    /\ UNCHANGED <<call, panicked, self, tested, serial>>

\* s.Add(things...) (lines 161-172).
Add(things) ==
    /\ ~panicked
    /\ Len(adds) < MaxAdds
    /\ AtRest
    /\ LET r == AddFrom(This, things, 0)
       IN  /\ values' = r.s.values
           /\ ctors' = r.s.ctors
           /\ injectionTypes' = r.s.injectionTypes
           /\ adds' = Append(adds, [p |-> self.id, things |-> things,
                                    err |-> r.err])
    /\ UNCHANGED <<call, panicked, self, others, tested, serial>>

\* The argument lists of the Add calls:
\*   func() C, func(C) B, func(B, C) A;   a value of type C;
\*   func() B, another value of type C, func() C;   func(B, C) A, nil, a
\*   value of type C;   func() B, func() C.
AddLists ==
    {<<Func("C", <<>>), Func("B", <<"C">>), Func("A", <<"B", "C">>)>>,
     <<Value("C", 0)>>,
     <<Func("B", <<>>), Func("C", <<>>)>>,
     <<Func("B", <<>>), Value("C", -2), Func("C", <<>>)>>,
     <<Func("A", <<"B", "C">>), Nil, Value("C", 0)>>}

\* p := &Psyringe{} as New makes it (line 119), its maps as init leaves
\* them (lines 140-142).
InitAdd ==
    /\ values = <<>>
    /\ ctors = <<>>
    /\ injectionTypes = {}
    /\ call = <<>>
    /\ panicked = FALSE
    /\ self = Original
    /\ others = <<>>
    /\ adds = <<>>
    /\ tested = <<>>
    /\ serial = [k \in Keys |-> 0]

NextAdd ==
    \/ \E things \in AddLists : Add(things)
    \/ Next

AddSpec == InitAdd /\ [][NextAdd]_vars

----------------------------------------------------------------------------
\* Clone

\* clone keeping the Once and what its body holds: only a struct copy.
clone_SameOnce(c) ==
    [c EXCEPT !.count = 0, !.passed = <<>>, !.failed = FALSE]

\* clone dropping c.value: every copy starts unrealised.
clone_NoValue(c) == tryMakeCtor(c.outType, c.inTypes)

\* ctor.clone: a copy of the ctor with a new sync.Once and a new errChan;
\* the copy keeps c.value. What the once body held (its argument
\* goroutines, args, the pending error) belongs to the old Once and is not
\* part of the copy, and the copy's function has not been called.
clone(c) == [tryMakeCtor(c.outType, c.inTypes) EXCEPT !.value = c.value]

\* Clone with an empty injectionTypes map in the new Psyringe.
ClonePsyringe_NoTypes(s) ==
    [values         |-> s.values,
     ctors          |-> [k \in DOMAIN s.ctors |-> clone(s.ctors[k])],
     injectionTypes |-> {}]

\* Psyringe.Clone: a new Psyringe with maps of its own that hold the same
\* values and injection types and a clone of every ctor.
ClonePsyringe(s) ==
    [values         |-> s.values,
     ctors          |-> [k \in DOMAIN s.ctors |-> clone(s.ctors[k])],
     injectionTypes |-> s.injectionTypes]

\* This Psyringe with its Inject calls, as kept in others.
Here ==
    [self |-> self, values |-> values, ctors |-> ctors,
     injectionTypes |-> injectionTypes, call |-> call]

\* The constructor values realised in this Psyringe.
Carried ==
    [k \in {x \in DOMAIN ctors : ctors[x].value # <<>>} |-> ctors[k].value[1]]

\* clone with a pointer receiver: the new Once and errChan are assigned to
\* the source's ctor.
cloneReceiver_Pointer(c) == clone(c)

\* What ctor.clone leaves in the ctor it is called on. The receiver is a
\* value (func (c ctor) clone()): c.once and c.errChan are assigned in the
\* copy, the ctor in the source's map is only read.
cloneReceiver(c) == c

\* q := s.Clone() while the program has made fewer than n clones: q joins
\* the other Psyringes of the program.
CloneUpTo(n) ==
    /\ ~panicked
    /\ Len(others) < n
    /\ LET q == ClonePsyringe(This)
       IN  others' = Append(others,
               [self |-> [id |-> Len(others) + 1, from |-> self.id,
                          carried |-> Carried, parent |-> self.parent,
                          hook |-> self.hook],
                values |-> q.values, ctors |-> q.ctors,
                injectionTypes |-> q.injectionTypes, call |-> <<>>])
    /\ ctors' = [k \in DOMAIN ctors |-> cloneReceiver(ctors[k])]
    /\ UNCHANGED <<values, call, panicked, injectionTypes, self, adds,
                   tested, serial>>

Clone == CloneUpTo(MaxClones)

\* The program goes on with the i-th of the other Psyringes: the state
\* variables describe that one from now on, this one is kept in its place.
Switch(i) ==
    /\ ~panicked
    /\ self' = others[i].self
    /\ values' = others[i].values
    /\ ctors' = others[i].ctors
    /\ injectionTypes' = others[i].injectionTypes
    /\ call' = others[i].call
    /\ others' = [others EXCEPT ![i] = Here]
    /\ UNCHANGED <<panicked, adds, tested, serial>>

\* New(func(B, C) A, func(C) B): nothing is registered for C yet.
InitClone ==
    /\ Init
    /\ DOMAIN values = {}
    /\ DOMAIN ctors = {"A", "B"}

\* The argument lists of the Inject calls made here: &struct{C; A} and
\* &struct{B}.
CloneTargets ==
    {<<NewTarget("ptrStruct", <<"C", "A">>)>>,
     <<NewTarget("ptrStruct", <<"B">>)>>}

NextClone ==
    \/ Clone
    \/ \E i \in 1..Len(others) : Switch(i)
    \/ Add(<<Value("C", 0)>>)
    \/ \E tl \in CloneTargets : StartInject(tl)
    \/ \E c \in CallIds : InjectRecv(c)
    \/ \E c \in CallIds : \E t \in TargetIds(c) : TargetRecv(c, t)
    \/ \E c \in CallIds : \E t \in TargetIds(c) :
          \E i \in FieldIds(c, t) : FieldGet(c, t, i)
    \/ \E c \in CallIds : \E t \in TargetIds(c) :
          \E i \in FieldIds(c, t) : FieldRecv(c, t, i)
    \/ \E k \in DOMAIN ctors : \E i \in ArgIds(k) : ArgGet(k, i)
    \/ \E k \in DOMAIN ctors : \E i \in ArgIds(k) : ArgRecv(k, i)
    \/ \E k \in DOMAIN ctors : Construct(k)
    \/ \E k \in DOMAIN ctors : Return(k)

CloneSpec == InitClone /\ [][NextClone]_vars

\* The argument lists of the Add calls made on the clones and their source:
\* a value of type C; func() C.
FrameAdds == {<<Value("C", 0)>>, <<Func("C", <<>>)>>}

\* The argument list of the Inject calls made there: &struct{C}.
FrameTargets == {<<NewTarget("ptrStruct", <<"C">>)>>}

\* New(func(B, C) A, func(C) B), up to MaxCopies clones of it and of its
\* clones, Add of something of type C to any of them and Inject of
\* &struct{C} with any of them.
NextFrame ==
    \/ CloneUpTo(MaxCopies)
    \/ \E i \in 1..Len(others) : Switch(i)
    \/ \E things \in FrameAdds : Add(things)
    \/ \E tl \in FrameTargets : StartInject(tl)
    \/ \E c \in CallIds : InjectRecv(c)
    \/ \E c \in CallIds : \E t \in TargetIds(c) : TargetRecv(c, t)
    \/ \E c \in CallIds : \E t \in TargetIds(c) :
          \E i \in FieldIds(c, t) : FieldGet(c, t, i)
    \/ \E c \in CallIds : \E t \in TargetIds(c) :
          \E i \in FieldIds(c, t) : FieldRecv(c, t, i)
    \/ \E k \in DOMAIN ctors : Construct(k)
    \/ \E k \in DOMAIN ctors : Return(k)

FrameSpec == InitClone /\ [][NextFrame]_vars

----------------------------------------------------------------------------
\* Scope

\* Scope as a clone: the child gets nodes of its own for the parent's
\* constructors.
Scope_Copy ==
    /\ ~panicked
    /\ others = <<>>
    /\ others' = <<[self |-> [id |-> 1, from |-> 1, carried |-> <<>>,
                              parent |-> self.id, hook |-> self.hook],
                    values |-> values,
                    ctors |-> [k \in DOMAIN ctors |-> clone(ctors[k])],
                    injectionTypes |-> injectionTypes, call |-> <<>>]>>
    /\ UNCHANGED <<values, ctors, call, panicked, injectionTypes, self, adds,
                   tested, serial>>

\* child := s.Scope(name): a Psyringe with empty maps of its own that knows
\* the injection types of its parent as registered and falls back to it.
Scope ==
    /\ ~panicked
    /\ others = <<>>
    /\ others' = <<[self |-> [id |-> 1, from |-> 1, carried |-> <<>>,
                              parent |-> self.id, hook |-> self.hook],
                    values |-> <<>>, ctors |-> <<>>,
                    injectionTypes |-> injectionTypes, call |-> <<>>]>>
    /\ UNCHANGED <<values, ctors, call, panicked, injectionTypes, self, adds,
                   tested, serial>>

\* Psyringe r has an entry of its own for type ty.
Local(r, ty) == ty \in DOMAIN r.values \cup DOMAIN r.ctors

\* FieldGot for the task of field i of an Inject call on the scope
\* others[o], whose lookup was answered by this Psyringe, its parent.
ScopedFieldGot(o, c, t, i, v, err, cs) ==
    /\ ctors' = cs
    /\ IF err = NoErr
          THEN IF v.valid
                  THEN /\ others' = [others EXCEPT
                                       ![o].call[c].tg[t].f[i].pc = "done",
                                       ![o].call[c].tg[t].f[i].val = v]
                       /\ UNCHANGED panicked
                  ELSE /\ panicked' = TRUE
                       /\ others' = others
          ELSE /\ others' =
                    IF IsNoConstructorOrValue(err)
                       THEN LET own == others[o].self.hook
                                h   == noValueForStructField(own, err)
                            IN  [others EXCEPT
                                   ![o].call[c].tg[t].f[i].pc = h.pc,
                                   ![o].call[c].tg[t].f[i].err = h.err,
                                   ![o].call[c].tg[t].f[i].hooked =
                                       Append(@, own.fn)]
                       ELSE [others EXCEPT
                               ![o].call[c].tg[t].f[i].pc = "send",
                               ![o].call[c].tg[t].f[i].err = err]
               /\ UNCHANGED panicked

\* The field tasks of the Inject calls on others[o] whose type has no entry
\* in others[o], this Psyringe being its parent.
FallBack(o, c, t, i) ==
    /\ others[o].self.parent = self.id
    /\ ~Local(others[o], others[o].call[c].tg[t].types[i])

\* A field task of a scope looks its type up in the parent: the parent's
\* getValue answers, with the parent's ctor and its Once.
ScopedFieldGet(o, c, t, i) ==
    /\ ~panicked
    /\ FallBack(o, c, t, i)
    /\ others[o].call[c].tg[t].f[i].pc = "get"
    /\ LET ty == others[o].call[c].tg[t].types[i]
           g  == getValue(ty)
       IN  IF g.res = "wait"
              THEN /\ ctors' = onceDo(ctors, ty)
                   /\ others' = [others EXCEPT
                                    ![o].call[c].tg[t].f[i].pc = "recv"]
                   /\ UNCHANGED panicked
              ELSE ScopedFieldGot(o, c, t, i, g.v, g.err, ctors)
    /\ UNCHANGED <<values, call, injectionTypes, self, adds, tested, serial>>

\* That field task receives from the errChan of the parent's ctor.
ScopedFieldRecv(o, c, t, i) ==
    /\ ~panicked
    /\ FallBack(o, c, t, i)
    /\ others[o].call[c].tg[t].f[i].pc = "recv"
    /\ LET ty == others[o].call[c].tg[t].types[i]
       IN  \E r \in Receives(ty) :
              ScopedFieldGot(o, c, t, i, received(ty, r).v,
                             received(ty, r).err, r.cs)
    /\ UNCHANGED <<values, call, injectionTypes, self, adds, tested, serial>>

\* The field tasks of this Psyringe that it answers itself: all of them
\* unless it is a scope and has no entry for the type.
OwnField(c, t, i) ==
    self.parent = NoParent \/ Local(This, call[c].tg[t].types[i])

\* The argument list of the Inject calls made on the scopes: &struct{C; B}.
ScopeTargets == {<<NewTarget("ptrStruct", <<"C", "B">>)>>}

\* root := New(func() C).
InitScope ==
    /\ values = <<>>
    /\ ctors = [k \in {"C"} |-> tryMakeCtor("C", <<>>)]
    /\ call = <<>>
    /\ panicked = FALSE
    /\ injectionTypes = {"C"}
    /\ self = Original
    /\ others = <<>>
    /\ adds = <<>>
    /\ tested = <<>>
    /\ serial = [k \in Keys |-> 0]

\* This Psyringe is the scope Scope returned; it is a clone of that scope.
IsScope == self.parent # NoParent /\ self.from = self.id
IsScopeClone == self.parent # NoParent /\ self.from # self.id

\* child := root.Scope("child"); child.Add(func() B); then, as often as
\* the bounds allow, child.Clone().Inject(&struct{C; B}).
NextScope ==
    \/ Scope
    \/ \E i \in 1..Len(others) : Switch(i)
    \/ IsScope /\ Add(<<Func("B", <<>>)>>)
    \/ IsScope /\ CloneUpTo(MaxCopies + 1)
    \/ IsScopeClone /\ \E tl \in ScopeTargets : StartInject(tl)
    \/ \E c \in CallIds : InjectRecv(c)
    \/ \E c \in CallIds : \E t \in TargetIds(c) : TargetRecv(c, t)
    \/ \E c \in CallIds : \E t \in TargetIds(c) :
          \E i \in FieldIds(c, t) : OwnField(c, t, i) /\ FieldGet(c, t, i)
    \/ \E c \in CallIds : \E t \in TargetIds(c) :
          \E i \in FieldIds(c, t) : OwnField(c, t, i) /\ FieldRecv(c, t, i)
    \/ \E o \in 1..Len(others) : \E c \in 1..Len(others[o].call) :
          \E t \in 1..Len(others[o].call[c].tg) :
             \E i \in 1..Len(others[o].call[c].tg[t].f) :
                ScopedFieldGet(o, c, t, i)
    \/ \E o \in 1..Len(others) : \E c \in 1..Len(others[o].call) :
          \E t \in 1..Len(others[o].call[c].tg) :
             \E i \in 1..Len(others[o].call[c].tg[t].f) :
                ScopedFieldRecv(o, c, t, i)
    \/ \E k \in DOMAIN ctors : Construct(k)
    \/ \E k \in DOMAIN ctors : Return(k)

ScopeSpec == InitScope /\ [][NextScope]_vars

\* The argument lists of the Add calls made on a scope: func() B, which is
\* new to it, and func() C and a value of type C, whose type is registered
\* in the parent.
ScopeAdds ==
    {<<Func("B", <<>>)>>, <<Func("C", <<>>)>>, <<Value("C", 0)>>}

\* root := New(func() C); child := root.Scope("child"); then Add calls on
\* the child and on clones of it.
NextScopeAdd ==
    \/ Scope
    \/ \E i \in 1..Len(others) : Switch(i)
    \/ self.parent # NoParent /\ \E things \in ScopeAdds : Add(things)
    \/ IsScope /\ CloneUpTo(MaxCopies + 1)

ScopeAddSpec == InitScope /\ [][NextScopeAdd]_vars

----------------------------------------------------------------------------
\* Hooks

\* The hook functions a program sets on the Psyringe New returned, and those
\* it sets on a clone or a scope in place of the inherited one.
SourceHooks == {Hooks(1, FALSE), Hooks(1, TRUE)}
ChildHooks == {Hooks(2, FALSE), Hooks(2, TRUE)}

\* s.Hooks.NoValueForStructField = fn, before s is injected from.
SetHooks(h) ==
    /\ ~panicked
    /\ call = <<>>
    /\ self.hook # h
    /\ self' = [self EXCEPT !.hook = h]
    /\ UNCHANGED <<values, ctors, call, panicked, injectionTypes, others,
                   adds, tested, serial>>

\* The argument list of the Inject calls made here: &struct{C; B}.
HookTargets == {<<NewTarget("ptrStruct", <<"C", "B">>)>>}

\* New(), New(func(C) B) or New(func(C) B, C{}), with a hook function set.
InitHooks ==
    /\ \E r \in {<<>>, <<"B">>, <<"B", "C">>} :
          /\ values = [k \in {x \in {"C"} : Len(r) = 2} |-> Val(k, 0)]
          /\ ctors = [k \in {x \in {"B"} : Len(r) >= 1} |->
                        tryMakeCtor(k, InTypesOf(k))]
    /\ call = <<>>
    /\ panicked = FALSE
    /\ injectionTypes = DOMAIN values \cup DOMAIN ctors
    /\ \E h \in SourceHooks : self = [Original EXCEPT !.hook = h]
    /\ others = <<>>
    /\ adds = <<>>
    /\ tested = <<>>
    /\ serial = [k \in Keys |-> 0]

\* The program makes one scope or one clone of the Psyringe, may set a hook
\* of its own on it, and injects from any of them.
NextHooks ==
    \/ Scope
    \/ Clone
    \/ \E i \in 1..Len(others) : Switch(i)
    \/ self.id # 0 /\ \E h \in ChildHooks : SetHooks(h)
    \/ \E tl \in HookTargets : StartInject(tl)
    \/ \E c \in CallIds : InjectRecv(c)
    \/ \E c \in CallIds : \E t \in TargetIds(c) : TargetRecv(c, t)
    \/ \E c \in CallIds : \E t \in TargetIds(c) :
          \E i \in FieldIds(c, t) : OwnField(c, t, i) /\ FieldGet(c, t, i)
    \/ \E c \in CallIds : \E t \in TargetIds(c) :
          \E i \in FieldIds(c, t) : OwnField(c, t, i) /\ FieldRecv(c, t, i)
    \/ \E o \in 1..Len(others) : \E c \in 1..Len(others[o].call) :
          \E t \in 1..Len(others[o].call[c].tg) :
             \E i \in 1..Len(others[o].call[c].tg[t].f) :
                ScopedFieldGet(o, c, t, i)
    \/ \E o \in 1..Len(others) : \E c \in 1..Len(others[o].call) :
          \E t \in 1..Len(others[o].call[c].tg) :
             \E i \in 1..Len(others[o].call[c].tg[t].f) :
                ScopedFieldRecv(o, c, t, i)
    \/ \E k \in DOMAIN ctors : \E i \in ArgIds(k) : ArgGet(k, i)
    \/ \E k \in DOMAIN ctors : Construct(k)
    \/ \E k \in DOMAIN ctors : Return(k)

HooksSpec == InitHooks /\ [][NextHooks]_vars

----------------------------------------------------------------------------
\* A dependency cycle

\* The argument lists of the Inject calls made here: &struct{A},
\* &struct{B} and &struct{C; A}.
CycleTargets ==
    {<<NewTarget("ptrStruct", <<"A">>)>>,
     <<NewTarget("ptrStruct", <<"B">>)>>,
     <<NewTarget("ptrStruct", <<"C", "A">>)>>}

\* New(newA, newB) with newA := func(B) A or func(B, C) A and
\* newB := func(A) B: A needs B and B needs A. C has a constructor, a
\* value or nothing.
InitCycle ==
    /\ \E inA \in {<<"B">>, <<"B", "C">>} : \E c \in EntriesOf("C") :
          /\ values = [k \in {x \in {"C"} : c = "value"} |-> Val(k, 0)]
          /\ ctors = [k \in {"A", "B"} \cup {x \in {"C"} : c = "ctor"} |->
                        CASE k = "A" -> tryMakeCtor("A", inA)
                          [] k = "B" -> tryMakeCtor("B", <<"A">>)
                          [] OTHER   -> tryMakeCtor("C", <<>>)]
    /\ call = <<>>
    /\ panicked = FALSE
    /\ injectionTypes = DOMAIN values \cup DOMAIN ctors
    /\ self = Original
    /\ others = <<>>
    /\ adds = <<>>
    /\ tested = <<>>
    /\ serial = [k \in Keys |-> 0]

StartCycleInject == \E tl \in CycleTargets : StartInject(tl)

NextCycle ==
    \/ StartCycleInject
    \/ \E c \in CallIds : InjectRecv(c)
    \/ \E c \in CallIds : \E t \in TargetIds(c) : TargetRecv(c, t)
    \/ \E c \in CallIds : \E t \in TargetIds(c) :
          \E i \in FieldIds(c, t) : FieldGet(c, t, i)
    \/ \E c \in CallIds : \E t \in TargetIds(c) :
          \E i \in FieldIds(c, t) : FieldRecv(c, t, i)
    \/ \E k \in DOMAIN ctors : \E i \in ArgIds(k) : ArgGet(k, i)
    \/ \E k \in DOMAIN ctors : \E i \in ArgIds(k) : ArgRecv(k, i)
    \/ \E k \in DOMAIN ctors : Construct(k)
    \/ \E k \in DOMAIN ctors : Return(k)

\* Every goroutine that can take a step takes it in the end: the Go
\* scheduler starves no runnable goroutine. The program is not obliged to
\* make another Inject call.
Scheduling ==
    /\ \A c \in 1..MaxCalls : WF_vars(c \in CallIds /\ InjectRecv(c))
    /\ \A c \in 1..MaxCalls : \A t \in 1..2 :
          WF_vars(c \in CallIds /\ t \in TargetIds(c) /\ TargetRecv(c, t))
    /\ \A c \in 1..MaxCalls : \A t \in 1..2 : \A i \in 1..2 :
          /\ WF_vars(c \in CallIds /\ t \in TargetIds(c)
                        /\ i \in FieldIds(c, t) /\ FieldGet(c, t, i))
          /\ WF_vars(c \in CallIds /\ t \in TargetIds(c)
                        /\ i \in FieldIds(c, t) /\ FieldRecv(c, t, i))
    /\ \A k \in Keys : \A i \in 1..2 :
          /\ WF_vars(k \in DOMAIN ctors /\ i \in ArgIds(k) /\ ArgGet(k, i))
          /\ WF_vars(k \in DOMAIN ctors /\ i \in ArgIds(k) /\ ArgRecv(k, i))
    /\ \A k \in Keys : WF_vars(k \in DOMAIN ctors /\ Construct(k))
    /\ \A k \in Keys : WF_vars(k \in DOMAIN ctors /\ Return(k))

CycleSpec == InitCycle /\ [][NextCycle]_vars /\ Scheduling

\* The program of Spec with every goroutine scheduled in the end.
LiveSpec == Init /\ [][Next]_vars /\ Scheduling

----------------------------------------------------------------------------
\* Test

\* reflect.Type.String() of the type of a function with parameters in and
\* result out, e.g. "func(B, C) A".
RECURSIVE Join(_)
Join(in) ==
    IF in = <<>> THEN ""
    ELSE IF Len(in) = 1 THEN in[1]
    ELSE in[1] \o ", " \o Join(Tail(in))

funcType(in, out) == "func(" \o Join(in) \o ") " \o out

\* NoConstructorOrValue{ForType: paramType, ConstructorParamIndex:
\* &paramIndex, ConstructorType: &c.outType} (lines 278-282): the
\* constructor is named by the type it returns.
NoConstructorOrValueIn(t, i, out) ==
    [kind |-> "NoConstructorOrValue", type |-> t, idx |-> i, ctor |-> out]

\* The loop of testParametersAreRegisteredIn from parameter i (zero-based)
\* on.
RECURSIVE testParametersFrom(_, _, _)
testParametersFrom(c, s, i) ==
    IF i = Len(c.inTypes) THEN NoErr
    ELSE IF c.inTypes[i + 1] \in DOMAIN s.ctors THEN
        testParametersFrom(c, s, i + 1)
    ELSE IF c.inTypes[i + 1] \in DOMAIN s.values THEN
        testParametersFrom(c, s, i + 1)
    ELSE NoConstructorOrValueIn(c.inTypes[i + 1], i, c.outType)

\* c.testParametersAreRegisteredIn(s) (lines 270-285).
testParametersAreRegisteredIn(c, s) == testParametersFrom(c, s, 0)

\* Test returning from the loop after the first ctor it meets, error or
\* not.
TestResults_FirstOnly(s) ==
    IF DOMAIN s.ctors = {} THEN {NoErr}
    ELSE {testParametersAreRegisteredIn(s.ctors[k], s) : k \in DOMAIN s.ctors}

\* What s.Test() can return (lines 261-268): the loop ranges over the map
\* s.ctors, in an order the runtime chooses anew for every range statement,
\* and returns the first error it meets. Any constructor with an
\* unregistered parameter can be the first one met; nothing else is
\* looked at.
TestResults(s) ==
    LET errs == {testParametersAreRegisteredIn(s.ctors[k], s) :
                    k \in DOMAIN s.ctors} \ {NoErr}
    IN  IF errs = {} THEN {NoErr} ELSE errs

\* Test realising what it looks at: every constructor's function is called.
Test_Calling ==
    /\ ~panicked
    /\ Len(tested) < MaxTests
    /\ \E e \in TestResults(This) :
          tested' = Append(tested, [p |-> self.id, err |-> e])
    /\ ctors' = [k \in DOMAIN ctors |->
                    [ctors[k] EXCEPT !.count = ctors[k].count + 1]]
    /\ UNCHANGED <<values, call, panicked, injectionTypes, self,
                   others, adds, serial>>

\* err := s.Test(). Test reads the two maps and the inTypes of the ctors,
\* which no goroutine of Inject writes.
Test ==
    /\ ~panicked
    /\ Len(tested) < MaxTests
    /\ \E e \in TestResults(This) :
          tested' = Append(tested, [p |-> self.id, err |-> e])
    /\ UNCHANGED <<values, ctors, call, panicked, injectionTypes, self,
                   others, adds, serial>>

\* The parameter lists of the constructors given to New.
ParamLists == UNION {[1..n -> Keys] : n \in 0..MaxParams}

\* What New(...) was given for an injection type: nothing, a value, or a
\* constructor with any parameter list.
Entries ==
    {[kind |-> "none", in |-> <<>>], [kind |-> "value", in |-> <<>>]}
    \cup {[kind |-> "ctor", in |-> in] : in \in ParamLists}

\* New(...) with any constructors and values for A, B and C, whatever
\* their parameters: complete or not, with or without cycles.
InitTest ==
    /\ \E r \in [Keys -> Entries] :
        /\ values = [k \in {x \in Keys : r[x].kind = "value"} |-> Val(k, 0)]
        /\ ctors = [k \in {x \in Keys : r[x].kind = "ctor"} |->
                        tryMakeCtor(k, r[k].in)]
    /\ call = <<>>
    /\ panicked = FALSE
    /\ injectionTypes = DOMAIN values \cup DOMAIN ctors
    /\ self = Original
    /\ others = <<>>
    /\ adds = <<>>
    /\ tested = <<>>
    /\ serial = [k \in Keys |-> 0]

NextTest == Test

TestSpec == InitTest /\ [][NextTest]_vars

\* Test calls at any moment of the Inject calls of Spec.
NextInjectTest ==
    \/ Test
    \/ Next

InjectTestSpec == Init /\ [][NextInjectTest]_vars

----------------------------------------------------------------------------
\* Vocabulary of the properties

\* The tasks that request type k from the container: field tasks of
\* targets and argument tasks of constructors.
FieldTasks ==
    UNION {UNION {{[kind |-> "field", c |-> c, t |-> t, i |-> i, k |-> ""] :
                      i \in FieldIds(c, t)} : t \in TargetIds(c)} : c \in CallIds}

ArgTasks ==
    UNION {{[kind |-> "arg", c |-> 0, t |-> 0, i |-> i, k |-> k] : i \in ArgIds(k)} :
              k \in DOMAIN ctors}

Task(x) ==
    IF x.kind = "field" THEN call[x.c].tg[x.t].f[x.i] ELSE ctors[x.k].in[x.i]

TypeOf(x) ==
    IF x.kind = "field" THEN call[x.c].tg[x.t].types[x.i]
    ELSE ctors[x.k].inTypes[x.i]

Requesters(k) == {x \in FieldTasks \cup ArgTasks : TypeOf(x) = k}

\* A task that has its answer from getValue: the error it got (NoErr with
\* a value).
Answered(x) == Task(x).pc \in {"send", "done"}

\* The injection types a registered constructor needs, transitively.
RECURSIVE NeedsFrom(_, _)
NeedsFrom(ks, n) ==
    IF n = 0 THEN ks
    ELSE NeedsFrom(ks \cup UNION {{ctors[k].inTypes[i] : i \in ArgIds(k)} :
                                    k \in ks \cap DOMAIN ctors}, n - 1)

Needs(ks) == NeedsFrom(ks, Cardinality(Keys))

\* The injection types an Inject call needs: those of the fields of its
\* targets and, transitively, the parameters of their constructors.
CallNeeds(c) ==
    Needs(UNION {{call[c].tg[t].types[i] : i \in FieldIds(c, t)} : t \in TargetIds(c)})

Succeeded(c) == call[c].pc = "returned" /\ call[c].result = NoErr

----------------------------------------------------------------------------
\* C1: the function of every registered constructor is invoked at most
\* once, and exactly once when an Inject call that needs it (as the type of
\* a field or, transitively, as a parameter) has returned without error.
C1_InvokedExactlyOnce ==
    \A k \in DOMAIN ctors :
        /\ ctors[k].count <= 1
        /\ (\E c \in CallIds : Succeeded(c) /\ k \in CallNeeds(c))
              => ctors[k].count = 1

\* The half of C1 the code keeps: no constructor function runs twice.
AtMostOnce == \A k \in DOMAIN ctors : ctors[k].count <= 1

----------------------------------------------------------------------------
\* C2: callers that wait on the same constructor node all observe the same
\* outcome of its one realization attempt. Whenever a task that was blocked
\* on the node's errChan gets its answer, every task that already has an
\* answer for that node has the same one (the same error, or nil with the
\* value).
C2_WaitersSeeOneOutcome ==
    [][\A k \in DOMAIN ctors : \A x \in Requesters(k) :
          (Task(x).pc = "recv" /\ Task(x)'.pc \in {"send", "done"})
              => \A y \in Requesters(k) :
                    Answered(y) => Task(y).err = Task(x)'.err]_vars

\* C3: a failed node stays failed. A request made once the node has failed
\* and finished (its error was delivered, the once body has returned) is
\* answered with that same error, never with a value.
C3_FailureIsCached ==
    [][\A k \in DOMAIN ctors : \A x \in Requesters(k) :
          (/\ ctors[k].pc = "done"
           /\ ctors[k].err # NoErr
           /\ Task(x).pc = "get"
           /\ Task(x)'.pc # "get")
              => Task(x)'.pc = "send" /\ Task(x)'.err = ctors[k].err]_vars

\* C4: when a constructor's function has been entered, every declared
\* input had been realised (a registered value, or a constructor whose
\* c.value is stored) and the function received the inputs' realised
\* values in declared parameter order.
C4_InputsRealizedInOrder ==
    \A k \in DOMAIN ctors :
        ctors[k].count > 0 =>
            /\ Len(ctors[k].passed) = Len(ctors[k].inTypes)
            /\ \A i \in ArgIds(k) :
                  LET t == ctors[k].inTypes[i]
                  IN  /\ \/ t \in DOMAIN values
                         \/ t \in DOMAIN ctors /\ ctors[t].value # <<>>
                      /\ ctors[k].passed[i] =
                            IF t \in DOMAIN values THEN values[t]
                            ELSE ctors[t].value[1]

\* A's function was entered with the values of the constructors B and C.
C4_Witness ==
    /\ {"A", "B", "C"} \subseteq DOMAIN ctors
    /\ ctors["A"].count = 1
    /\ ctors["A"].passed = <<Val("B", 1), Val("C", 1)>>

\* A node is failed when construct returned an error: the user function
\* did, or an argument was missing.
Failed(k) == ctors[k].err # NoErr

\* C5: a constructor's function is entered only if all its inputs realised
\* successfully, and no output of a failed constructor reaches a parameter
\* or a field.
C5_NoFailedInputUsed ==
    /\ \A k \in DOMAIN ctors :
          ctors[k].count > 0 =>
              \A i \in ArgIds(k) :
                  LET t == ctors[k].inTypes[i]
                  IN  /\ t \in DOMAIN values \cup DOMAIN ctors
                      /\ t \in DOMAIN ctors => ~Failed(t)
    /\ \A x \in FieldTasks :
          (TypeOf(x) \in DOMAIN ctors /\ Task(x).val # Prior(TypeOf(x)))
              => ~Failed(TypeOf(x))

\* C6: every consumer of a constructor's key holds the one value its
\* single invocation produced: every field that was set and every
\* argument that was passed.
C6_OneInstancePerKey ==
    /\ \A x \in FieldTasks :
          LET t == TypeOf(x)
          IN  (t \in DOMAIN ctors /\ Task(x).val # Prior(t))
                  => ctors[t].count = 1 /\ Task(x).val = ctors[t].out
    /\ \A k \in DOMAIN ctors : \A i \in ArgIds(k) :
          LET t == ctors[k].inTypes[i]
          IN  (ctors[k].count > 0 /\ t \in DOMAIN ctors)
                  => ctors[t].count = 1 /\ ctors[k].passed[i] = ctors[t].out

\* C's one value sits in a field and was passed to both A and B.
C6_Witness ==
    /\ {"A", "B", "C"} \subseteq DOMAIN ctors
    /\ ctors["A"].count = 1 /\ ctors["A"].passed[2] = Val("C", 1)
    /\ ctors["B"].count = 1 /\ ctors["B"].passed[1] = Val("C", 1)
    /\ \E x \in FieldTasks : TypeOf(x) = "C" /\ Task(x).val = Val("C", 1)

\* The field task got a constructor failure from getValue: an error other
\* than NoConstructorOrValue.
GotFailure(f) == f.err # NoErr /\ ~IsNoConstructorOrValue(f.err)

\* C7: when a field task of a target got a constructor failure, the Inject
\* call of that target returns a non-nil error.
C7_FieldFailureReachesInject ==
    \A c \in CallIds :
        (/\ call[c].pc = "returned"
         /\ \E t \in TargetIds(c) : \E i \in FieldIds(c, t) :
               GotFailure(call[c].tg[t].f[i]))
            => call[c].result # NoErr

\* An Inject call returned the error of A's function, which a field got.
C7_Witness ==
    \E c \in CallIds :
        /\ call[c].pc = "returned"
        /\ call[c].result = UserErr("A")
        /\ \E t \in TargetIds(c) : \E i \in FieldIds(c, t) :
              call[c].tg[t].f[i].err = UserErr("A")

\* Type t has neither a value nor a constructor.
NoEntry(t) == t \notin DOMAIN values \cup DOMAIN ctors

\* Constructor k, or one it needs, declares a parameter without entry.
MissingParam(k) ==
    \E k2 \in Needs({k}) \cap DOMAIN ctors :
        \E j \in ArgIds(k2) : NoEntry(ctors[k2].inTypes[j])

\* C8: an Inject call with a field whose constructor needs a parameter
\* that has no entry returns an error.
C8_MissingParamFailsInject ==
    \A c \in CallIds :
        (/\ call[c].pc = "returned"
         /\ \E t \in TargetIds(c) : \E i \in FieldIds(c, t) :
               /\ call[c].tg[t].kind = "ptrStruct"
               /\ call[c].tg[t].types[i] \in DOMAIN ctors
               /\ MissingParam(call[c].tg[t].types[i]))
            => call[c].result # NoErr

\* C9: a field whose type has no entry keeps its prior value, its task
\* never sends an error, and neither inject nor Inject returns the
\* no-entry error of that field.
C9_NoEntryFieldUntouched ==
    \A x \in FieldTasks :
        NoEntry(TypeOf(x)) =>
            /\ Task(x).val = Prior(TypeOf(x))
            /\ Task(x).pc # "send"
            /\ call[x.c].tg[x.t].err # NoConstructorOrValue(TypeOf(x))
            /\ call[x.c].result # NoConstructorOrValue(TypeOf(x))

\* Inject returned nil although the task of a field without entry ran.
C9_Witness ==
    \E x \in FieldTasks :
        /\ NoEntry(TypeOf(x))
        /\ Task(x).pc = "done"
        /\ Task(x).err = NoConstructorOrValue(TypeOf(x))
        /\ Succeeded(x.c)

\* No target handed to Inject so far is a non-nil pointer to a struct.
OnlyBadTargets ==
    \A c \in CallIds : \A t \in TargetIds(c) : call[c].tg[t].kind # "ptrStruct"

\* C10: a target that is no pointer, a pointer to a non-struct or a nil
\* pointer gets the structural error of its kind, none of its field tasks
\* ever starts, its memory is never written, its Inject call fails, and
\* while only such targets were injected no constructor was touched.
C10_BadTargetRejected ==
    /\ \A c \in CallIds : \A t \in TargetIds(c) :
          call[c].tg[t].kind # "ptrStruct" =>
              /\ call[c].tg[t].err = TargetErr(call[c].tg[t].kind)
              /\ \A i \in FieldIds(c, t) :
                    /\ call[c].tg[t].f[i].pc = "idle"
                    /\ call[c].tg[t].f[i].val = Prior(call[c].tg[t].types[i])
              /\ call[c].pc = "returned" => call[c].result # NoErr
    /\ OnlyBadTargets => \A k \in DOMAIN ctors : ctors[k].pc = "idle"

\* Inject returned the structural error of a nil pointer.
C10_Witness ==
    \E c \in CallIds :
        /\ call[c].pc = "returned"
        /\ call[c].result = TargetErr("nilPtr")

----------------------------------------------------------------------------
\* The realised value of the entry registered for type t, NoValue while it
\* has none: the registered value, or what the constructor's function
\* returned without error.
Realized(t) ==
    IF t \in DOMAIN values THEN values[t]
    ELSE IF t \in DOMAIN ctors /\ ctors[t].count = 1 /\ ctors[t].out.valid
                               /\ ~Failed(t)
        THEN ctors[t].out
    ELSE NoValue

\* C11: after an Inject call returned nil, every field whose type has a
\* registered entry holds that entry's realised value: the registered
\* value, or the value the constructor's function returned when called
\* once on the realised values of its inputs.
C11_SuccessFillsFields ==
    \A c \in CallIds : Succeeded(c) =>
        \A t \in TargetIds(c) : \A i \in FieldIds(c, t) :
            LET ty == call[c].tg[t].types[i]
            IN  ~NoEntry(ty) =>
                    /\ Realized(ty).valid
                    /\ call[c].tg[t].f[i].val = Realized(ty)
                    /\ (ty \in DOMAIN ctors \ DOMAIN values) =>
                          \A j \in ArgIds(ty) :
                              ctors[ty].passed[j] = Realized(ctors[ty].inTypes[j])

\* What C11 rests on: no needed constructor lacks a parameter (C8), and no
\* constructor function failed (C2, C3, C5).
C11_Sound ==
    \/ \E k \in DOMAIN ctors : MissingParam(k) \/ Failed(k)
    \/ C11_SuccessFillsFields

----------------------------------------------------------------------------
\* Vocabulary of the properties about several Psyringes

\* Every Psyringe of the program, with its Inject calls.
Psyringes == {Here} \cup {others[i] : i \in 1..Len(others)}

\* The Psyringe with the given id.
Psy(id) == CHOOSE r \in Psyringes : r.self.id = id

\* The injection types reached from ks through the parameters of the
\* constructors cs, in at most n steps.
RECURSIVE NeedsIn(_, _, _)
NeedsIn(cs, ks, n) ==
    IF n = 0 THEN ks
    ELSE NeedsIn(cs,
                 ks \cup UNION {{cs[k].inTypes[i] : i \in 1..Len(cs[k].inTypes)} :
                                   k \in ks \cap DOMAIN cs},
                 n - 1)

\* The types of the fields of the targets that the Inject calls made on
\* Psyringe r accepted.
FieldTypes(r) ==
    UNION {UNION {{r.call[c].tg[t].types[i] : i \in 1..Len(r.call[c].tg[t].types)} :
                     t \in {x \in 1..Len(r.call[c].tg) :
                               r.call[c].tg[x].kind = "ptrStruct"}} :
              c \in 1..Len(r.call)}

\* The constructor of k in Psyringe r was touched: its once body started.
Touched(r, k) == r.ctors[k].pc # "idle" \/ r.ctors[k].count > 0

----------------------------------------------------------------------------
----------------------------------------------------------------------------
\* Neither constructor needs the other, directly or through others.
Independent(k1, k2) ==
    /\ k1 # k2
    /\ k2 \notin NeedsIn(ctors, {ctors[k1].inTypes[i] : i \in ArgIds(k1)},
                         Cardinality(Keys))
    /\ k1 \notin NeedsIn(ctors, {ctors[k2].inTypes[i] : i \in ArgIds(k2)},
                         Cardinality(Keys))

\* The once body of k has all its arguments and is about to call
\* c.construct (wg.Wait has returned).
Ready(k) ==
    /\ ctors[k].pc = "wait"
    /\ \A i \in ArgIds(k) : ctors[k].in[i].pc = "done"

\* C13: independent realizations are not serialized. While the function of
\* one constructor is executing, a constructor independent of it that has
\* its arguments can enter its own function: nothing is held across a
\* constructor invocation that would make it wait.
C13_NotSerialized ==
    \A k1 \in DOMAIN ctors : \A k2 \in DOMAIN ctors :
        (/\ ~panicked
         /\ Independent(k1, k2)
         /\ ctors[k2].pc = "call"
         /\ Ready(k1))
            => ENABLED Construct(k1)

\* The functions of the independent constructors func() B and func() C,
\* both needed by one Inject call for A, are executing at the same time.
C13_Witness ==
    /\ {"A", "B", "C"} \subseteq DOMAIN ctors
    /\ Independent("B", "C")
    /\ ctors["B"].pc = "call"
    /\ ctors["C"].pc = "call"
    /\ Len(call) = 1
    /\ {"B", "C"} \subseteq NeedsIn(ctors, FieldTypes(Here), Cardinality(Keys))

----------------------------------------------------------------------------
\* Vocabulary of the properties about Add

\* This step is an Add call; Added is the call with what it returned.
IsAdd == Len(adds') = Len(adds) + 1
Added == adds'[Len(adds')]

\* The injection types of the first n things.
TypesOf(things, n) ==
    {things[j].type : j \in {x \in 1..n : things[x].kind # "nil"}}

\* The i-th thing has an injection type that is registered in s already or
\* is that of an earlier thing of the same call.
Duplicate(s, things, i) ==
    /\ things[i].kind # "nil"
    /\ things[i].type \in s.injectionTypes \cup TypesOf(things, i - 1)

\* The position (one-based) of the first thing that is a duplicate or nil,
\* 0 if there is none.
FirstBad(s, things) ==
    LET bad == {i \in 1..Len(things) :
                   things[i].kind = "nil" \/ Duplicate(s, things, i)}
    IN  IF bad = {} THEN 0
        ELSE CHOOSE i \in bad : \A j \in bad : i <= j

----------------------------------------------------------------------------
\* C14: Add returns an error whenever one of its things has an injection
\* type that is registered already, by an earlier Add call or by an
\* earlier thing of the same call, be the two values or constructors; the
\* error names that type when the duplicate is the first thing Add cannot
\* take.
C14_DuplicateRejected ==
    [][IsAdd =>
          /\ (\E i \in 1..Len(Added.things) : Duplicate(This, Added.things, i))
                => Added.err # NoErr
          /\ LET i == FirstBad(This, Added.things)
             IN  (i > 0 /\ Added.things[i].kind # "nil")
                    => Added.err = AlreadyRegistered(Added.things[i].type)]_vars

\* Within one call the constructor func() C was refused after a value of
\* type C; the next call was refused a value of type C.
C14_Witness ==
    /\ Len(adds) = 2
    /\ adds[1].things = <<Func("B", <<>>), Value("C", -2), Func("C", <<>>)>>
    /\ adds[1].err = AlreadyRegistered("C")
    /\ adds[2].things = <<Value("C", 0)>>
    /\ adds[2].err = AlreadyRegistered("C")

----------------------------------------------------------------------------
\* The entry of type t in the maps s: what is stored for t in values and
\* in ctors (<<>> where nothing is).
Entry(s, t) ==
    [value |-> IF t \in DOMAIN s.values THEN <<s.values[t]>> ELSE <<>>,
     ctor  |-> IF t \in DOMAIN s.ctors THEN <<s.ctors[t]>> ELSE <<>>]

\* The entry the thing registers when Add takes it.
EntryOf(thing) ==
    [value |-> IF thing.kind = "value" THEN <<thing.v>> ELSE <<>>,
     ctor  |-> IF thing.kind = "ctor"
                  THEN <<tryMakeCtor(thing.type, thing.in)>> ELSE <<>>]

\* The entry registered first under the type of the duplicate at position
\* i: the one s held before the call, or that of the first thing of the
\* call with this type.
FirstEntry(s, things, i) ==
    LET t == things[i].type
    IN  IF t \in s.injectionTypes THEN Entry(s, t)
        ELSE EntryOf(things[CHOOSE j \in 1..(i - 1) :
                        /\ things[j].kind # "nil" /\ things[j].type = t
                        /\ \A x \in 1..(j - 1) :
                              things[x].kind = "nil" \/ things[x].type # t])

\* What Psyringe.getValue (lines 348-355) finds for type t in the maps
\* with the entry e: the value if there is one, the ctor otherwise.
Found(e) ==
    IF e.value # <<>> THEN [res |-> "value", v |-> e.value, c |-> <<>>]
    ELSE [res |-> "ctor", v |-> <<>>, c |-> e.ctor]

\* C15: an Add that fails on a duplicate injection type overwrites
\* nothing. After it the entry registered first under that type is
\* unchanged, the refused value or constructor is stored nowhere, and
\* getValue still resolves the type as before.
C15_DuplicateNotStored ==
    [][IsAdd =>
          LET i == FirstBad(This, Added.things)
          IN  (i > 0 /\ Added.things[i].kind # "nil") =>
                  LET t == Added.things[i].type
                  IN  /\ Entry(This', t) = FirstEntry(This, Added.things, i)
                      /\ Found(Entry(This', t)) =
                            Found(FirstEntry(This, Added.things, i))]_vars

----------------------------------------------------------------------------
\* C16: an Add call with a thing whose injection type is registered
\* already fails as a whole: it returns an error and registers none of its
\* things, the maps are as they were before the call.
C16_BatchAtomic ==
    [][IsAdd =>
          ((\E i \in 1..Len(Added.things) : Duplicate(This, Added.things, i))
              => Added.err # NoErr /\ This' = This)]_vars

\* The part of C16 that does not rest on what a refused thing leaves in
\* the maps (C15): the types registered are those registered before.
C16_TypesAtomic ==
    [][IsAdd =>
          ((\E i \in 1..Len(Added.things) : Duplicate(This, Added.things, i))
              => injectionTypes' = injectionTypes)]_vars

----------------------------------------------------------------------------
\* The position (one-based) of the first nil among the things, 0 if none.
FirstNil(things) ==
    LET nils == {i \in 1..Len(things) : things[i].kind = "nil"}
    IN  IF nils = {} THEN 0 ELSE CHOOSE i \in nils : \A j \in nils : i <= j

\* The call registered nothing from position n on: every registered type
\* was registered before or is that of a thing before n, and a type that
\* no thing before n has keeps the entry it had.
NothingFrom(n, things) ==
    /\ injectionTypes' \subseteq injectionTypes \cup TypesOf(things, n - 1)
    /\ \A t \in Keys \ TypesOf(things, n - 1) :
          Entry(This', t) = Entry(This, t)

\* C17 as stated: Add given a nil thing returns the error that names the
\* zero-based position of the first nil, and registers neither the nil nor
\* anything after it.
C17_NilNamed ==
    [][IsAdd =>
          LET n == FirstNil(Added.things)
          IN  n > 0 => /\ Added.err = CannotAddNil(n - 1)
                       /\ NothingFrom(n, Added.things)]_vars

\* C17, amended: Add given a nil thing returns an error and registers
\* neither the nil nor anything after it; the error names the zero-based
\* position of the first nil unless a thing before it has an injection
\* type that is registered already, in which case it is the error of the
\* first such duplicate.
C17_NilRejected ==
    [][IsAdd =>
          LET n == FirstNil(Added.things)
              b == FirstBad(This, Added.things)
          IN  n > 0 =>
                /\ b = n => Added.err = CannotAddNil(n - 1)
                /\ b < n => Added.err = AlreadyRegistered(Added.things[b].type)
                /\ NothingFrom(n, Added.things)]_vars

\* Add(func(B, C) A, nil, value of C) on the empty Psyringe returned
\* "cannot add nil (argument 1)": A is registered, C is not.
C17_Witness ==
    /\ Len(adds) = 1
    /\ adds[1].things = <<Func("A", <<"B", "C">>), Nil, Value("C", 0)>>
    /\ adds[1].err = CannotAddNil(1)
    /\ injectionTypes = {"A"}
    /\ DOMAIN ctors = {"A"}
    /\ DOMAIN values = {}

----------------------------------------------------------------------------
\* The values of type k that Psyringe r handed out: to the fields of the
\* targets of its Inject calls and to the functions of its constructors.
Observed(r, k) ==
    UNION {UNION {{r.call[c].tg[t].f[i].val :
                      i \in {x \in 1..Len(r.call[c].tg[t].f) :
                                /\ r.call[c].tg[t].types[x] = k
                                /\ r.call[c].tg[t].f[x].val # Prior(k)}} :
                     t \in 1..Len(r.call[c].tg)} : c \in 1..Len(r.call)}
    \cup UNION {{r.ctors[k2].passed[j] :
                    j \in {x \in 1..Len(r.ctors[k2].passed) :
                              r.ctors[k2].inTypes[x] = k}} :
                   k2 \in DOMAIN r.ctors}

\* Constructor k of Psyringe r was not realised when r was cloned from its
\* source (in the Psyringe New returned, every constructor).
OwnToRealize(r, k) ==
    k \in DOMAIN r.ctors /\ k \notin DOMAIN r.values /\ k \notin DOMAIN r.self.carried

----------------------------------------------------------------------------
\* Constructor k was realised in the source of clone r when r was taken:
\* c.value was set and the function had returned no error, called by the
\* source itself or, the source being a clone, by the Psyringe the source
\* has the value from. (c.value is set after a failure as well, once the
\* error was received.)
RECURSIVE CarriedOver(_, _)
CarriedOver(r, k) ==
    /\ r.self.id # Original.id
    /\ k \in DOMAIN r.self.carried
    /\ LET s == Psy(r.self.from)
       IN  /\ s.ctors[k].err = NoErr
           /\ s.ctors[k].count = 1 \/ CarriedOver(s, k)

----------------------------------------------------------------------------
\* What is registered in Psyringe r: its injection types, its values and
\* the signatures of its constructors.
Registry(r) ==
    [injectionTypes |-> r.injectionTypes,
     values         |-> r.values,
     ctors          |-> [k \in DOMAIN r.ctors |-> r.ctors[k].inTypes]]

----------------------------------------------------------------------------
\* This step is a Clone call; Cloned is the Psyringe it returned.
IsClone == Len(others') = Len(others) + 1
Cloned == others'[Len(others')]

----------------------------------------------------------------------------
\* The Psyringes that are clones of the Psyringe with identity id.
ClonesOf(id) == {r \in Psyringes : r.self.id # id /\ r.self.from = id}

----------------------------------------------------------------------------
\* The Add calls on the Psyringe with identity id that name a constructor
\* for type k, as positions in adds.
AddsOf(id, k) ==
    {i \in 1..Len(adds) :
        /\ adds[i].p = id
        /\ \E j \in 1..Len(adds[i].things) :
              adds[i].things[j].kind = "ctor" /\ adds[i].things[j].type = k}

\* Clone r has its constructor for k from its source: no Add call on r
\* named one.
InheritedCtor(r, k) ==
    /\ r.self.id # Original.id
    /\ k \in DOMAIN r.ctors
    /\ k \in DOMAIN Psy(r.self.from).ctors
    /\ AddsOf(r.self.id, k) = {}

\* A constructor for k was added to clone r and to its source after r was
\* taken, by one Add call each that returned nil.
AddedToBoth(r, k) ==
    /\ r.self.id # Original.id
    /\ \E i \in AddsOf(r.self.id, k) : adds[i].err = NoErr
    /\ \E i \in AddsOf(r.self.from, k) : adds[i].err = NoErr
    /\ Cardinality(AddsOf(r.self.id, k)) = 1
    /\ Cardinality(AddsOf(r.self.from, k)) = 1

\* Psyringe r called the function of its constructor for k at most once
\* and handed out nothing but the value of that call.
OwnValue(r, k) ==
    /\ k \in DOMAIN r.ctors
    /\ r.ctors[k].count <= 1
    /\ \A v \in Observed(r, k) : r.ctors[k].count = 1 /\ v = r.ctors[k].out

\* C23, second part: a constructor added to the source and to the clone
\* after cloning is called once in each, and each keeps handing out the
\* value of its own call.
C23_AddedAfterOwnValue ==
    \A r \in Psyringes : \A k \in Keys :
        AddedToBoth(r, k) =>
            /\ OwnValue(r, k)
            /\ OwnValue(Psy(r.self.from), k)
            /\ (r.ctors[k].out.valid /\ Psy(r.self.from).ctors[k].out.valid)
                  => r.ctors[k].out # Psy(r.self.from).ctors[k].out

----------------------------------------------------------------------------
\* Vocabulary of the properties about Test

\* This step is a Test call; Tested is the call with what it returned.
IsTest == Len(tested') = Len(tested) + 1
Tested == tested'[Len(tested')]

\* Every parameter of every constructor of s has a value or a constructor.
Complete(s) ==
    \A k \in DOMAIN s.ctors : \A i \in 1..Len(s.ctors[k].inTypes) :
        s.ctors[k].inTypes[i] \in DOMAIN s.ctors \cup DOMAIN s.values

\* The injection types the constructor of k takes as parameters.
Deps(s, k) ==
    IF k \in DOMAIN s.ctors
        THEN {s.ctors[k].inTypes[i] : i \in 1..Len(s.ctors[k].inTypes)}
        ELSE {}

\* The injection types reached from those in ks in at most n steps along
\* the parameters of constructors, ks included.
RECURSIVE ReachFrom(_, _, _)
ReachFrom(s, ks, n) ==
    IF n = 0 THEN ks
    ELSE ReachFrom(s, ks \cup UNION {Deps(s, k) : k \in ks}, n - 1)

\* k depends on itself.
OnCycle(s, k) == k \in ReachFrom(s, Deps(s, k), Cardinality(Keys))

Cyclic(s) == \E k \in DOMAIN s.ctors : OnCycle(s, k)

\* C24: Test returns nil if and only if every parameter of every
\* registered constructor has a value or a constructor and no constructor
\* depends on itself.
C24_TestIffCompleteAcyclic ==
    \A i \in 1..Len(tested) :
        tested[i].err = NoErr <=> (Complete(This) /\ ~Cyclic(This))

\* Test returns nil if and only if every parameter of every registered
\* constructor has a value or a constructor.
C24_TestIffComplete ==
    \A i \in 1..Len(tested) : tested[i].err = NoErr <=> Complete(This)

----------------------------------------------------------------------------
\* Parameter i (one-based) of the constructor of k has no entry in s.
Unsatisfied(s, k, i) ==
    s.ctors[k].inTypes[i] \notin DOMAIN s.ctors \cup DOMAIN s.values

\* The diagnostic e is about the constructor of k: it gives the zero-based
\* index of the first parameter of k without entry and the type of that
\* parameter.
FirstUnsatisfied(s, k, e) ==
    /\ e.kind = "NoConstructorOrValue"
    /\ e.idx + 1 \in 1..Len(s.ctors[k].inTypes)
    /\ Unsatisfied(s, k, e.idx + 1)
    /\ \A j \in 1..e.idx : ~Unsatisfied(s, k, j)
    /\ e.type = s.ctors[k].inTypes[e.idx + 1]

\* C25: a diagnostic of Test names a constructor by the type of its
\* function, the zero-based index of the first parameter of that
\* constructor without entry, and the type of that parameter; the
\* parameters before it have entries.
C25_NamesFuncIndexType ==
    \A i \in 1..Len(tested) :
        tested[i].err # NoErr =>
            \E k \in DOMAIN ctors :
                /\ tested[i].err.ctor = funcType(ctors[k].inTypes, k)
                /\ FirstUnsatisfied(This, k, tested[i].err)

\* The same with the constructor named by the type it returns.
C25_NamesOutTypeIndexType ==
    \A i \in 1..Len(tested) :
        tested[i].err # NoErr =>
            \E k \in DOMAIN ctors :
                /\ tested[i].err.ctor = k
                /\ FirstUnsatisfied(This, k, tested[i].err)

----------------------------------------------------------------------------
\* The injection types sorted by name.
SortedKeys == <<"A", "B", "C">>

\* The depth-first walk along the parameters, in declared order, of the
\* constructor of the last type of path, from its parameter i (one-based)
\* on: the path up to the first type met that is on the path already, <<>>
\* if there is none.
RECURSIVE Walk(_, _, _)
Walk(s, path, i) ==
    LET k  == path[Len(path)]
        in == IF k \in DOMAIN s.ctors THEN s.ctors[k].inTypes ELSE <<>>
    IN  IF i > Len(in) THEN <<>>
        ELSE IF \E j \in 1..Len(path) : path[j] = in[i]
            THEN Append(path, in[i])
        ELSE LET r == Walk(s, Append(path, in[i]), 1)
             IN  IF r # <<>> THEN r ELSE Walk(s, path, i + 1)

\* The walk from the first type, in sorted order, that reaches a cycle.
RECURSIVE CyclePathFrom(_, _)
CyclePathFrom(s, n) ==
    IF n > Len(SortedKeys) THEN <<>>
    ELSE LET r == Walk(s, <<SortedKeys[n]>>, 1)
         IN  IF r # <<>> THEN r ELSE CyclePathFrom(s, n + 1)

CyclePath(s) == CyclePathFrom(s, 1)

\* C26: with every parameter registered and a cycle in the graph, the
\* diagnostic of Test is the dependency cycle found by the depth-first
\* walk from the first type in sorted order that reaches one, as a path
\* that ends with the first type met twice.
C26_CyclePathReported ==
    \A i \in 1..Len(tested) :
        (Complete(This) /\ Cyclic(This)) =>
            /\ tested[i].err.kind = "dependency cycle"
            /\ tested[i].err.path = CyclePath(This)

\* The walk finds a cycle exactly in the graphs that have one, and its
\* path for func(B) A, func(C) B, func(B) C is A, B, C, B.
C26_WalkFindsCycles ==
    /\ (CyclePath(This) # <<>>) <=> Cyclic(This)
    /\ (/\ DOMAIN ctors = Keys
        /\ ctors["A"].inTypes = <<"B">>
        /\ ctors["B"].inTypes = <<"C">>
        /\ ctors["C"].inTypes = <<"B">>)
           => CyclePath(This) = <<"A", "B", "C", "B">>

----------------------------------------------------------------------------
\* The constructors of s with a parameter that has no entry.
Incomplete(s) ==
    {k \in DOMAIN s.ctors :
        \E i \in 1..Len(s.ctors[k].inTypes) : Unsatisfied(s, k, i)}

\* The position of k in the sorted order.
KeyIndex(k) == CHOOSE n \in 1..Len(SortedKeys) : SortedKeys[n] = k

\* The first of the types in ks in sorted order (ks not empty).
FirstSorted(ks) == CHOOSE k \in ks : \A x \in ks : KeyIndex(k) <= KeyIndex(x)

\* Every Test call on the same registry returns the same.
C27_SameEveryTime ==
    \A i \in 1..Len(tested) : \A j \in 1..Len(tested) :
        tested[i].err = tested[j].err

\* C27: Test is deterministic. Test calls on the same set of entries
\* return the same diagnostic; with several constructors that have a
\* parameter without entry the diagnostic is about the first of them in
\* sorted order; and with every parameter registered and a cycle the
\* reported path starts where the sorted walk starts.
C27_TestDeterministic ==
    /\ C27_SameEveryTime
    /\ \A i \in 1..Len(tested) :
          Incomplete(This) # {} =>
              LET k == FirstSorted(Incomplete(This))
              IN  /\ tested[i].err.ctor \in {k, funcType(ctors[k].inTypes, k)}
                  /\ FirstUnsatisfied(This, k, tested[i].err)
    /\ \A i \in 1..Len(tested) :
          (Complete(This) /\ Cyclic(This)) =>
              /\ tested[i].err.kind = "dependency cycle"
              /\ tested[i].err.path[1] = CyclePath(This)[1]

----------------------------------------------------------------------------
\* C28: with a constructor that has a parameter without entry and a cycle
\* in the same registry, Test returns the diagnostic of a missing
\* parameter, that of a constructor which has one, wherever the types of
\* the cycle sort.
C28_MissingBeforeCycle ==
    \A i \in 1..Len(tested) :
        (Incomplete(This) # {} /\ Cyclic(This)) =>
            /\ tested[i].err.kind = "NoConstructorOrValue"
            /\ \E k \in Incomplete(This) :
                  /\ tested[i].err.ctor = k
                  /\ FirstUnsatisfied(This, k, tested[i].err)

\* New(func(A) A, func(B) C) with nothing for B: A depends on itself and
\* sorts before C, and Test returned the diagnostic of C's parameter 0.
C28_Witness ==
    /\ DOMAIN ctors = {"A", "C"}
    /\ DOMAIN values = {}
    /\ ctors["A"].inTypes = <<"A">>
    /\ ctors["C"].inTypes = <<"B">>
    /\ Len(tested) >= 1
    /\ tested[1].err = NoConstructorOrValueIn("B", 0, "C")

----------------------------------------------------------------------------
\* C29: Test only reads. A Test call, at whatever moment of the Inject
\* calls on the same Psyringe, calls no function and changes neither the
\* maps nor any ctor nor the state of any Inject call: what follows a Test
\* call starts from the state it would have started from without it.
C29_TestChangesNothing ==
    [][IsTest =>
          /\ values' = values
          /\ ctors' = ctors
          /\ injectionTypes' = injectionTypes
          /\ call' = call
          /\ serial' = serial
          /\ panicked' = panicked
          /\ others' = others
      ]_vars

\* Two Test calls were made and two Inject calls returned nil on the same
\* Psyringe, A's constructor having been called once.
C29_Witness ==
    /\ Len(tested) = 2
    /\ Len(call) = 2
    /\ \A c \in 1..2 : call[c].pc = "returned" /\ call[c].result = NoErr
    /\ "A" \in DOMAIN ctors
    /\ ctors["A"].count = 1
    /\ ctors["A"].value # <<>>

----------------------------------------------------------------------------
\* The scopes: the Psyringes that fall back to a parent.
Scopes == {r \in Psyringes : r.self.parent # NoParent}

----------------------------------------------------------------------------
\* The injection types registered in this Psyringe or in its parent.
KnownHere ==
    injectionTypes \cup
        (IF self.parent = NoParent THEN {} ELSE Psy(self.parent).injectionTypes)

\* This step is an Add call on a scope whose first item has an injection
\* type registered in the scope or in its parent.
IsScopeDuplicate ==
    /\ IsAdd
    /\ self.parent # NoParent
    /\ Added.things[1].kind # "nil"
    /\ Added.things[1].type \in KnownHere

\* C31: Add on a scope of an item whose injection type is registered in
\* the scope or in its parent returns the duplicate error and leaves the
\* scope and every other Psyringe as they were.
C31_ScopeDuplicateNoChange ==
    [][IsScopeDuplicate =>
          /\ Added.err = AlreadyRegistered(Added.things[1].type)
          /\ Here' = Here
          /\ others' = others
      ]_vars

\* The same without the scope's own maps: the error is the duplicate
\* error, the injection types of the scope stay the same and no other
\* Psyringe changes.
C31_ScopeDuplicateRefused ==
    [][IsScopeDuplicate =>
          /\ Added.err = AlreadyRegistered(Added.things[1].type)
          /\ injectionTypes' = injectionTypes
          /\ others' = others
      ]_vars

----------------------------------------------------------------------------
\* The field tasks of the Inject calls of Psyringe r, as <<c, t, i>>.
FieldTasksOf(r) ==
    {x \in (1..MaxCalls) \X (1..2) \X (1..2) :
        /\ x[1] <= Len(r.call)
        /\ x[2] <= Len(r.call[x[1]].tg)
        /\ x[3] <= Len(r.call[x[1]].tg[x[2]].f)}

FieldOf(r, x) == r.call[x[1]].tg[x[2]].f[x[3]]
FieldType(r, x) == r.call[x[1]].tg[x[2]].types[x[3]]

\* Psyringe r, or its parent if it is a scope, has an entry for type ty.
HasEntry(r, ty) ==
    \/ Local(r, ty)
    \/ r.self.parent # NoParent /\ Local(Psy(r.self.parent), ty)

\* The task of a field has finished resolving.
Resolved(f) == f.pc \in {"done", "send"}

\* Psyringe r calls the hook of the Psyringe New returned unless a hook of
\* its own was set on it.
UsesHook(r) ==
    IF r.self.hook \in ChildHooks THEN r.self.hook.fn
    ELSE Psy(0).self.hook.fn

\* C32: the NoValueForStructField hook is called exactly once for each
\* target field whose injection type has no entry, never for a field that
\* has an entry (so never for the unsatisfied argument of that entry's
\* constructor); a clone or scope calls the hook of its source unless it
\* has a hook of its own, and then the source's hook is not called.
C32_HookOncePerFieldWithoutEntry ==
    \A r \in Psyringes : \A x \in FieldTasksOf(r) :
        LET f == FieldOf(r, x)
        IN  /\ HasEntry(r, FieldType(r, x)) => f.hooked = <<>>
            /\ ~HasEntry(r, FieldType(r, x)) =>
                  /\ Len(f.hooked) <= 1
                  /\ Resolved(f) => f.hooked = <<UsesHook(r)>>

\* The same for the fields without entry only.
C32_HookOnceWithoutEntry ==
    \A r \in Psyringes : \A x \in FieldTasksOf(r) :
        LET f == FieldOf(r, x)
        IN  ~HasEntry(r, FieldType(r, x)) =>
                /\ Len(f.hooked) <= 1
                /\ Resolved(f) => f.hooked = <<UsesHook(r)>>

\* The hook is called for a field that has an entry only if a parameter
\* of that entry's constructor has none.
C32_HookedEntryLacksArg ==
    \A r \in Psyringes : \A x \in FieldTasksOf(r) :
        LET f == FieldOf(r, x)
        IN  (HasEntry(r, FieldType(r, x)) /\ f.hooked # <<>>) =>
                /\ f.hooked = <<UsesHook(r)>>
                /\ \E q \in Psyringes :
                      /\ FieldType(r, x) \in DOMAIN q.ctors
                      /\ \E a \in 1..Len(q.ctors[FieldType(r, x)].inTypes) :
                            ~HasEntry(q, q.ctors[FieldType(r, x)].inTypes[a])

----------------------------------------------------------------------------
\* fmt.Errorf("inject into %T target failed: %s", target, err): err wrapped
\* as the failure of a target.
TargetFailed(err) == [kind |-> "target", cause |-> err]

\* The targets of the Inject calls of Psyringe r, as <<c, t>>, whose task
\* received the error of a field task for which the hook was called.
HookedTargets(r) ==
    {y \in (1..MaxCalls) \X (1..2) :
        \E x \in FieldTasksOf(r) :
            /\ x[1] = y[1] /\ x[2] = y[2]
            /\ FieldOf(r, x).hooked # <<>>
            /\ FieldOf(r, x).pc = "done"
            /\ r.self.hook.fails}

\* What the hook's result means for the field it was called for: after nil
\* the field task ends without an error and the field holds what it held;
\* after an error the field task has that error to send.
HookDecidesField(r) ==
    \A x \in FieldTasksOf(r) :
        LET f == FieldOf(r, x)
        IN  f.hooked # <<>> =>
              IF r.self.hook.fails
                 THEN f.err = HookErr(r.self.hook.fn)
                 ELSE /\ f.pc = "done"
                      /\ f.val = Prior(FieldType(r, x))
                      /\ IsNoConstructorOrValue(f.err)

\* C33: the result of the NoValueForStructField hook decides the outcome
\* for a field without entry: after nil the field is left untouched and
\* its task reports no error; after an error the target fails with that
\* error wrapped once as the target's failure.
C33_HookErrorWrappedOnce ==
    \A r \in Psyringes :
        /\ HookDecidesField(r)
        /\ \A y \in HookedTargets(r) :
              r.call[y[1]].tg[y[2]].err = TargetFailed(HookErr(r.self.hook.fn))

\* The same with the hook's error as the hook returned it, which is also
\* what Inject returns if it returns after this target's error.
C33_HookErrorAsReturned ==
    \A r \in Psyringes :
        /\ HookDecidesField(r)
        /\ \A y \in HookedTargets(r) :
              LET cl == r.call[y[1]]
              IN  /\ cl.tg[y[2]].err = HookErr(r.self.hook.fn)
                  /\ cl.tg[y[2]].pc \in {"send", "done"}
                  /\ (cl.pc = "returned" /\ cl.tg[y[2]].pc = "done") =>
                        cl.result = HookErr(r.self.hook.fn)

----------------------------------------------------------------------------
\* The field task of tg whose error inject returned: the one that has sent.
SentField(tg, i) ==
    /\ tg.f[i].pc = "done"
    /\ tg.f[i].err # NoErr
    /\ ~IsNoConstructorOrValue(tg.f[i].err)
    /\ tg.f[i].hooked = <<>>

\* inject returned an error for target tg.
TargetFails(tg) == tg.pc \in {"send", "done"} /\ tg.err # NoErr

\* Inject call cl returned the error of its target t.
SentTarget(cl, t) == cl.tg[t].pc = "done" /\ cl.tg[t].err # NoErr

\* C34: the error Inject reports is chosen by position: of the failing
\* fields of a target the first in declaration order gives the target's
\* error, of the failing targets the first in the argument list gives the
\* error of Inject, whatever the order in which the tasks ran.
C34_FirstFailureReported ==
    \A c \in CallIds :
        /\ \A t \in TargetIds(c) : \A i \in FieldIds(c, t) :
              (TargetFails(call[c].tg[t]) /\ call[c].tg[t].f[i].pc = "send") =>
                  \E j \in 1..(i - 1) :
                      /\ SentField(call[c].tg[t], j)
                      /\ call[c].tg[t].f[j].err = call[c].tg[t].err
        /\ \A t \in TargetIds(c) :
              (call[c].pc = "returned" /\ call[c].tg[t].pc = "send") =>
                  \E u \in 1..(t - 1) :
                      /\ SentTarget(call[c], u)
                      /\ call[c].tg[u].err = call[c].result

\* The same without the order: the error of a target is the error of one
\* of its failing fields, the error of Inject is the error of one of its
\* failing targets.
C34_SomeFailureReported ==
    \A c \in CallIds :
        /\ \A t \in TargetIds(c) :
              (TargetFails(call[c].tg[t]) /\ validate(call[c].tg[t].kind) = NoErr) =>
                  \E j \in FieldIds(c, t) :
                      /\ SentField(call[c].tg[t], j)
                      /\ call[c].tg[t].f[j].err = call[c].tg[t].err
        /\ (call[c].pc = "returned" /\ call[c].result # NoErr) =>
              \E u \in TargetIds(c) :
                  /\ SentTarget(call[c], u)
                  /\ call[c].tg[u].err = call[c].result

----------------------------------------------------------------------------
\* One level of a cause chain.
Frame(what, type, idx) == [frame |-> what, type |-> type, idx |-> idx]

\* The levels the text of an error of the code names: the constructor's own
\* error names itself only, "unable to create arg %d (%s) of %s constructor"
\* names the constructor and the index of the argument, a
\* NoConstructorOrValue the missing type.
Frames(err) ==
    CASE err.kind = "user" -> <<Frame("user", err.type, 0)>>
      [] err.kind = "arg"  -> <<Frame("ctor", err.ctor, 0),
                                Frame("arg", err.type, err.idx)>>
      [] err.kind = "NoConstructorOrValue" -> <<Frame("noentry", err.type, 0)>>
      [] OTHER -> <<Frame(err.kind, err.type, err.idx)>>

\* The cause chains of a failed request for type k, from the constructor
\* of k inwards: through each argument that failed down to the error a
\* function returned or to the type without entry.
RECURSIVE Causes(_)
Causes(k) ==
    IF k \in DOMAIN values THEN {}
    ELSE IF k \notin DOMAIN ctors THEN {<<Frame("noentry", k, 0)>>}
    ELSE (IF ctors[k].err.kind = "user"
             THEN {<<Frame("ctor", k, 0), Frame("user", k, 0)>>} ELSE {})
         \cup UNION {{<<Frame("ctor", k, 0),
                         Frame("arg", ctors[k].inTypes[i], i - 1)>> \o ch :
                          ch \in Causes(ctors[k].inTypes[i])} :
                      i \in {j \in 1..Len(ctors[k].in) :
                                ctors[k].in[j].err # NoErr}}

\* The cause chains of a failure of target tg: target, failing field, then
\* the chain of that field's type.
TargetCauses(tg) ==
    UNION {{<<Frame("target", "", 0), Frame("field", tg.types[i], i)>> \o ch :
               ch \in Causes(tg.types[i])} : i \in 1..Len(tg.f)}

\* s is a run of consecutive elements of q.
IsSegment(s, q) ==
    \E a \in 0..(Len(q) - Len(s)) : \A n \in 1..Len(s) : s[n] = q[a + n]

\* The Inject calls that returned the error of a target that is a pointer
\* to a struct, with that target.
NestedFailures ==
    {y \in CallIds \X (1..2) :
        /\ y[2] <= Len(call[y[1]].tg)
        /\ call[y[1]].pc = "returned"
        /\ call[y[1]].tg[y[2]].kind = "ptrStruct"
        /\ SentTarget(call[y[1]], y[2])
        /\ call[y[1]].tg[y[2]].err = call[y[1]].result}

\* C35: for a nested failure the error of Inject is the whole cause chain
\* from the outside in, one frame per level: target, failing field, the
\* field's constructor, the index of its failing argument, that
\* argument's constructor, and so on down to the error the innermost
\* failing constructor returned or the error for the missing input.
C35_WholeCauseChain ==
    \A y \in NestedFailures :
        Frames(call[y[1]].result) \in TargetCauses(call[y[1]].tg[y[2]])

\* What the error of Inject does name: some consecutive levels of one
\* cause chain of the target.
C35_PartOfCauseChain ==
    \A y \in NestedFailures :
        \E q \in TargetCauses(call[y[1]].tg[y[2]]) :
            IsSegment(Frames(call[y[1]].result), q)

----------------------------------------------------------------------------
\* C36: Inject into a target whose field depends on a dependency cycle (A
\* needs B, B needs A) ends with a failure, a panic or an error, instead
\* of blocking for ever.
C36_CycleInjectFails ==
    \A c \in 1..MaxCalls :
        (c \in CallIds) ~>
            (panicked \/ (/\ c \in CallIds
                          /\ call[c].pc = "returned"
                          /\ call[c].result # NoErr))

\* Where A needs B only and B needs A only, no Inject call into &struct{A}
\* or &struct{B} ever returns.
C36_PureCycleBlocks ==
    \A c \in CallIds :
        (ctors["A"].inTypes = <<"B">> /\ Len(call[c].tg[1].types) = 1) =>
            call[c].pc = "recv" /\ ~panicked

----------------------------------------------------------------------------
\* C37: every constructor whose once body has started reaches its end in
\* the end (c.value stored, errChan closed), after a failure too and with
\* no caller left: neither the once body nor an argument task stays
\* blocked for ever in the send of its error.
C37_RealizingEnds ==
    \A k \in Keys :
        (k \in DOMAIN ctors /\ ctors[k].pc # "idle") ~>
            (/\ k \in DOMAIN ctors
             /\ ctors[k].pc = "done"
             /\ ctors[k].value # <<>>
             /\ \A i \in ArgIds(k) : ctors[k].in[i].pc = "done")

\* What does hold: a constructor whose function returned without error,
\* all its arguments having arrived, reaches its end.
C37_SuccessEnds ==
    \A k \in Keys :
        (k \in DOMAIN ctors /\ ctors[k].pc = "call") ~>
            (k \in DOMAIN ctors /\ (ctors[k].pc = "done" \/ ctors[k].failed))

----------------------------------------------------------------------------
C38_InjectReturnsOrPanics ==
    \A c \in 1..MaxCalls :
        (c \in CallIds) ~>
            (panicked \/ (c \in CallIds /\ call[c].pc = "returned"))

----------------------------------------------------------------------------
\* No goroutine of Inject call cl is left: every target task has ended, and
\* so has every field task that was started.
NoTaskLeft(cl) ==
    \A t \in 1..Len(cl.tg) :
        /\ cl.tg[t].pc = "done"
        /\ \A i \in 1..Len(cl.tg[t].f) : cl.tg[t].f[i].pc \in {"idle", "done"}

\* The content of the fields of the targets of Inject call cl.
FieldsOf(cl) ==
    [t \in 1..Len(cl.tg) |-> [i \in 1..Len(cl.tg[t].f) |-> cl.tg[t].f[i].val]]

\* C39: when an Inject call has returned, with nil or with an error, all
\* the work it started is finished: none of its target tasks or field
\* tasks is still running or blocked (so none can write a field of its
\* targets from then on).
C39_ReturnedMeansFinished ==
    \A c \in CallIds : call[c].pc = "returned" => NoTaskLeft(call[c])

\* The part of it about the fields: no field of a target is written after
\* the Inject call returned.
C39_NoWriteAfterReturn ==
    [][\A c \in CallIds :
          call[c].pc = "returned" => FieldsOf(call'[c]) = FieldsOf(call[c])
      ]_vars

\* Both for the Inject calls that returned nil.
C39_NilMeansFinished ==
    /\ [](\A c \in CallIds :
             (call[c].pc = "returned" /\ call[c].result = NoErr) =>
                 NoTaskLeft(call[c]))
    /\ [][\A c \in CallIds :
             (call[c].pc = "returned" /\ call[c].result = NoErr) =>
                 FieldsOf(call'[c]) = FieldsOf(call[c])
         ]_vars

----------------------------------------------------------------------------
\* No task of constructor k can send on its errChan any more: every
\* argument task has ended, the once body is past its send.
NoSenderLeft(k) ==
    /\ Senders(k) = {}
    /\ \A i \in ArgIds(k) : ctors[k].in[i].pc = "done"

\* C40: no task sends on a closed channel and no channel is closed twice.
\* Once the errChan of a constructor is closed, none of its tasks has a
\* send ahead and it stays closed; the errs of a target and the errs of an
\* Inject call, closed when all their senders have ended, stay closed: no
\* sender of theirs comes back.
C40_ClosedAfterLastSend ==
    [][/\ \A k \in DOMAIN ctors :
             /\ Closed(k)' => NoSenderLeft(k)'
             /\ Closed(k) => Closed(k)'
       /\ \A c \in CallIds :
             /\ InjectClosed(call[c]) => InjectClosed(call'[c])
             /\ \A t \in TargetIds(c) :
                   (call[c].tg[t].kind = "ptrStruct"
                        /\ injectClosed(call[c].tg[t])) =>
                       injectClosed(call'[c].tg[t])
      ]_vars

\* A constructor whose function failed has sent its error and closed its
\* errChan, and an Inject call returned from its closed errs.
C40_Witness ==
    /\ \E k \in DOMAIN ctors : Closed(k) /\ ctors[k].failed
    /\ \E c \in CallIds :
          /\ InjectClosed(call[c])
          /\ call[c].pc = "returned"
          /\ call[c].tg[1].kind = "ptrStruct"

====
